---- MODULE Spec2Model ----
(***************************************************************************)
(* Session service: the progress engine (ProgressService.update_progress)  *)
(* together with the other writers of the sessions table                   *)
(* (SessionService.update_session / delete_session / create_session,       *)
(* MessageService.add_message, BackgroundTaskService.cleanup_stale_        *)
(* sessions), as request handlers interleaving over one PostgreSQL         *)
(* database (READ COMMITTED, row locks); the webhook dispatcher            *)
(* (FeedbackService) the handlers call after their commit; and the retry   *)
(* queue with its worker (WebhookRetryService).                            *)
(*                                                                         *)
(* Spec         the request handlers and the reaper, receiver healthy      *)
(* DeliverySpec the operations that emit events, receiver and store faulty *)
(* RetrySpec    the retry queue: enqueue paths, worker, session deletion   *)
(* SweepSpec    the retry sweep with commits that fail                     *)
(* ReadSpec     get_next_step beside the writers of a session              *)
(* ManualSpec   create_session step by step, delete_manual                 *)
(* ReaperSpec   the reaper beside activity on the sessions                 *)
(* PairSpec     submissions and messages on two sessions                   *)
(* CascadeSpec  delete_session on one of two sessions                      *)
(* LoopSpec     the two background loops with iterations that raise        *)
(* EngineSpec   the progress engine on an existing session                 *)
(* ResponseSpec submissions with the response each one builds              *)
(* KeyedSpec    submissions that all carry the idempotency key             *)
(***************************************************************************)
EXTENDS Integers, Sequences, FiniteSets, TLC

\* ---------------------------------------------------------------- bounds
MaxSteps == 2       \* largest total_steps of the seeded manual
MaxOps == 3         \* requests started in one behaviour
MaxTime == 60       \* last clock reading of a behaviour, in minutes
MaxPosts == 3       \* POSTs made for one row up to which a failing commit is explored

\* ------------------------------------------------------- program constants
session_timeout_minutes == 30
BASE_DELAY_SECONDS == 4
MAX_ATTEMPTS == 3
BatchLimit == 10                \* .limit(10)

\* The clock reads seconds; between two readings the request handlers
\* take, timedelta(minutes=session_timeout_minutes) passes.
ClockStep == session_timeout_minutes * 60

Procs == {"h1", "h2"}           \* request handlers in flight together
SessionIds == {"s1"}
NoKey == "none"                 \* idempotency_key = None
Keys == {"k1"}
SeededManual == "m1"            \* manual_id of the manual the sessions use
ManualIds == {"m1", "m9"}       \* m9: no manual has this manual_id
StepStatus == {"DONE", "ONGOING"}
SessionStatus == {"active", "completed", "abandoned"}
NoStatus == "unset"             \* SessionUpdate.status = None
Null == -1                      \* NULL column value (ended_at)
EventTypes == {"session_created", "session_ended", "progress_update"}
NoError == "none"               \* last_error = None; a delivery that succeeded
Errors == {"Timeout", "HTTP 500"}

VARIABLES
    manuals,              \* the manuals table: the manual_ids present
    manual_total_steps,   \* Manual.total_steps of the seeded manual
    sessions,             \* the sessions table: a set of rows
    progress_events,      \* the progress_events table, in commit order
    messages,             \* the conversation_messages table, in commit order
    procs,                \* per request handler: operation, arguments, position, result
    next_uuid,            \* uuid4 source for Session.id
    now,                  \* wall clock (seconds)
    ops,                  \* requests started so far
    webhook_queue,        \* the webhook_queue table, in insertion order
    WEBHOOK_ENABLED,      \* settings.WEBHOOK_ENABLED
    pump,                 \* the retry worker: position and the batch it loaded
    loops                 \* the two background loops: position, wake-up time,
                          \* whether the last iteration raised

vars == <<manuals, manual_total_steps, sessions, progress_events, messages, procs,
          next_uuid, now, ops, webhook_queue, WEBHOOK_ENABLED, pump, loops>>

\* A row that stands for "no row loaded".
NoRow ==
    [id |-> 0, session_id |-> "", current_step |-> 0, status |-> "",
     ended_at |-> Null, last_activity_at |-> Null, version |-> 0]

\* No ProgressResponse built.
NoResponse == [previous_step |-> 0, current_step |-> 0, status |-> ""]

\* The retry worker between two sweeps.
IdlePump == [pc |-> "sleep", items |-> {}]

\* The two background duties: the stale-session reaper and the retry sweep.
Duties == {"cleanup", "retry"}
cleanup_interval_seconds == 300
RETRY_INTERVAL_SECONDS == 5

\* asyncio.sleep(...) at the end of a duty's loop body.
Interval(d) ==
    IF d = "cleanup" THEN cleanup_interval_seconds ELSE RETRY_INTERVAL_SECONDS

\* What an iteration of a duty or a loop's await can raise: database and
\* connection errors (subclasses of Exception), and CancelledError, which
\* is a BaseException and is raised in a task that was cancelled.
LoopErrors == {"SQLAlchemyError", "OSError"}
Cancelled == "CancelledError"

\* Both loops as the lifespan starts them: each runs its first iteration
\* at once. The specifications that do not follow the loops leave them
\* here and let a duty's body run at any time.
StartedLoops ==
    [d \in Duties |-> [pc |-> "run", wake |-> 0, raised |-> NoError]]

\* request: the ordinal of the request a handler serves, kept by the
\* handlers whose response is compared with the tables (create_session step
\* by step, get_next_step, delete_manual).
\* response: previous_step, current_step and status of a ProgressResponse,
\* kept by the handler that builds it from the reloaded session.
IdleProc ==
    [op |-> "none", pc |-> "idle", session_id |-> "", step |-> 0,
     step_status |-> "", key |-> NoKey, new_status |-> NoStatus,
     snap |-> NoRow, result |-> "none", feedback_sent |-> FALSE,
     is_completed |-> FALSE, manual_id |-> "", request |-> 0,
     response |-> NoResponse]

\* ------------------------------------------------------------- queries
\* select(Session).where(Session.session_id == session_id)
SessionExists(sid) == \E r \in sessions : r.session_id = sid

SessionRow(sid) == CHOOSE r \in sessions : r.session_id = sid

\* The row with primary key id, as the database holds it now.
RowExists(id) == \E r \in sessions : r.id = id

RowById(id) == CHOOSE r \in sessions : r.id = id

\* Mutant: the lock is kept until the webhook call has returned.
HoldsLock_UntilDispatched(p, id) ==
    /\ procs[p].op = "progress"
    /\ procs[p].pc \in {"locked", "committed", "send_failed"}
    /\ procs[p].snap.id = id

\* A row lock taken by SELECT ... FOR UPDATE is held by the handler until
\* its transaction commits or rolls back.
HoldsLock(p, id) ==
    /\ procs[p].op = "progress"
    /\ procs[p].pc = "locked"
    /\ procs[p].snap.id = id

RowLocked(id) == \E p \in Procs : HoldsLock(p, id)

\* Mutant: the session row is read without FOR UPDATE.
CanLockRow_NoLock(id) == TRUE

\* with_for_update(): the SELECT waits while another transaction holds the row.
CanLockRow(id) == ~RowLocked(id)

\* An UPDATE/DELETE of a row waits while another transaction holds its lock.
CanWriteRow(p, id) == \A q \in Procs \ {p} : ~HoldsLock(q, id)

\* Mutant: the idempotency lookup never finds a row.
ExistingEvent_NeverFound(id, key) == FALSE

\* Mutant: the idempotency lookup is not scoped to the session.
ExistingEvent_AnySession(id, key) ==
    \E i \in DOMAIN progress_events : progress_events[i].idempotency_key = key

\* select(ProgressEvent).where(session_uuid == id, idempotency_key == key)
ExistingEvent(id, key) ==
    \E i \in DOMAIN progress_events :
        /\ progress_events[i].session_uuid = id
        /\ progress_events[i].idempotency_key = key

Free(p) == procs[p].pc \in {"idle", "done"}

\* The handler returns (or raises): only the outcome stays visible.
Finish(p, res) ==
    procs' = [procs EXCEPT ![p] =
        [IdleProc EXCEPT !.op = procs[p].op, !.pc = "done", !.result = res]]

\* ------------------------------------------------------------ Init
Init ==
    /\ manuals = {SeededManual}
    /\ manual_total_steps \in 1..MaxSteps
    /\ sessions = {}
    /\ progress_events = <<>>
    /\ messages = <<>>
    /\ procs = [p \in Procs |-> IdleProc]
    /\ next_uuid = 1
    /\ now = 0
    /\ ops = 0
    /\ webhook_queue = <<>>
    /\ WEBHOOK_ENABLED = TRUE
    /\ pump = IdlePump
    /\ loops = StartedLoops

\* ------------------------------------------------------ create_session
CreateSession(p, sid) ==
    /\ Free(p)
    /\ ops < MaxOps
    /\ ops' = ops + 1
    /\ IF SessionExists(sid)
       THEN /\ procs' = [procs EXCEPT ![p] =
                   [IdleProc EXCEPT !.op = "create", !.pc = "done",
                                    !.result = "SessionAlreadyExists"]]
            /\ UNCHANGED <<sessions, next_uuid>>
       ELSE LET row == [id |-> next_uuid, session_id |-> sid,
                        current_step |-> 1, status |-> "active",
                        ended_at |-> Null, last_activity_at |-> now,
                        version |-> 1]
            IN /\ sessions' = sessions \cup {row}
               /\ next_uuid' = next_uuid + 1
               /\ procs' = [procs EXCEPT ![p] =
                      [IdleProc EXCEPT !.op = "create", !.pc = "committed",
                                       !.session_id = sid, !.snap = row,
                                       !.result = "OK"]]
    /\ UNCHANGED <<webhook_queue, WEBHOOK_ENABLED, pump,
                   manuals, manual_total_steps, progress_events, messages, now, loops>>

\* create_session step by step, for requests that run beside another
\* create_session or a delete_manual: the two SELECTs first (session_id
\* taken? manual there?) ...
CreateSessionRead(p, sid, mid) ==
    /\ Free(p)
    /\ ops < MaxOps
    /\ ops' = ops + 1
    /\ LET req == [IdleProc EXCEPT !.op = "create", !.session_id = sid,
                                   !.manual_id = mid, !.request = ops + 1]
       IN procs' = [procs EXCEPT ![p] =
              IF SessionExists(sid)
              THEN [req EXCEPT !.pc = "done", !.result = "SessionAlreadyExists"]
              ELSE IF mid \notin manuals
              THEN [req EXCEPT !.pc = "done", !.result = "ManualNotFound"]
              ELSE [req EXCEPT !.pc = "checked"]]
    /\ UNCHANGED <<webhook_queue, WEBHOOK_ENABLED, pump, manuals,
                   manual_total_steps, sessions, progress_events, messages,
                   next_uuid, now, loops>>

\* Mutant: the sessions table has no unique constraint on session_id.
UniqueViolation_NoConstraint(sid) == FALSE

\* session_id is unique=True: an INSERT of a session_id that is taken fails.
UniqueViolation(sid) == SessionExists(sid)

\* manual_uuid is a foreign key to manuals.id: an INSERT naming a manual
\* that is gone fails.
ForeignKeyViolation(mid) == mid \notin manuals

\* ... then the INSERT at commit, which the database refuses with an
\* IntegrityError when a constraint is violated.
CreateSessionCommit(p) ==
    /\ procs[p].op = "create"
    /\ procs[p].pc = "checked"
    /\ LET pr == procs[p]
           row == [id |-> next_uuid, session_id |-> pr.session_id,
                   current_step |-> 1, status |-> "active",
                   ended_at |-> Null, last_activity_at |-> now,
                   version |-> 1]
       IN IF UniqueViolation(pr.session_id) \/ ForeignKeyViolation(pr.manual_id)
          THEN /\ procs' = [procs EXCEPT ![p].pc = "done",
                                         ![p].result = "IntegrityError"]
               /\ UNCHANGED <<sessions, next_uuid>>
          ELSE /\ sessions' = sessions \cup {row}
               /\ next_uuid' = next_uuid + 1
               /\ procs' = [procs EXCEPT ![p].pc = "committed",
                                         ![p].snap = row,
                                         ![p].result = "OK"]
    /\ UNCHANGED <<webhook_queue, WEBHOOK_ENABLED, pump, manuals,
                   manual_total_steps, progress_events, messages, now, ops, loops>>

\* -------------------------------------------------------- delete_manual
\* The steps a manual owns (numbered 1..total_steps), gone with the manual.
ManualSteps(mid) ==
    IF mid \in manuals THEN 1..manual_total_steps ELSE {}

\* Mutant: only active sessions keep their manual from being deleted.
ManualReferenced_ActiveOnly(mid) ==
    mid = SeededManual /\ \E r \in sessions : r.status = "active"

\* Some session's manual_uuid names the manual (every session is a session
\* of the seeded manual).
ManualReferenced(mid) == mid = SeededManual /\ sessions # {}

\* ManualService.delete_manual: db.delete(manual) and commit. The flush
\* sets manual_uuid of the manual's sessions to NULL (Manual.sessions has
\* no delete cascade), which the NOT NULL column refuses, and the DELETE of
\* a manual a session still names violates the foreign key: the commit
\* raises IntegrityError and nothing is changed. Otherwise the manual and
\* (cascade) its steps are deleted.
DeleteManual(p, mid) ==
    /\ Free(p)
    /\ ops < MaxOps
    /\ ops' = ops + 1
    /\ LET req == [IdleProc EXCEPT !.op = "delete_manual", !.pc = "done",
                                   !.manual_id = mid, !.request = ops + 1]
       IN IF mid \notin manuals
          THEN /\ procs' = [procs EXCEPT ![p] =
                      [req EXCEPT !.result = "ManualNotFound"]]
               /\ UNCHANGED manuals
          ELSE IF ManualReferenced(mid)
          THEN /\ procs' = [procs EXCEPT ![p] =
                      [req EXCEPT !.result = "IntegrityError"]]
               /\ UNCHANGED manuals
          ELSE /\ procs' = [procs EXCEPT ![p] = [req EXCEPT !.result = "OK"]]
               /\ manuals' = manuals \ {mid}
    /\ UNCHANGED <<webhook_queue, WEBHOOK_ENABLED, pump, manual_total_steps,
                   sessions, progress_events, messages, next_uuid, now, loops>>

\* ------------------------------------------------------ submit_progress
\* Route + get_session_with_lock: request validation, then SELECT ... FOR UPDATE.
SubmitProgress(p, sid, step, st, key) ==
    /\ Free(p)
    /\ ops < MaxOps
    /\ LET req == [IdleProc EXCEPT !.op = "progress", !.session_id = sid,
                                   !.step = step, !.step_status = st,
                                   !.key = key]
       IN IF step < 1
          THEN procs' = [procs EXCEPT ![p] =
                   [IdleProc EXCEPT !.op = "progress", !.pc = "done",
                                    !.result = "ValidationError"]]
          ELSE IF ~SessionExists(sid)
          THEN procs' = [procs EXCEPT ![p] =
                   [IdleProc EXCEPT !.op = "progress", !.pc = "done",
                                    !.result = "SessionNotFound"]]
          ELSE /\ CanLockRow(SessionRow(sid).id)
               /\ procs' = [procs EXCEPT ![p] =
                      [req EXCEPT !.pc = "locked", !.snap = SessionRow(sid)]]
    /\ ops' = ops + 1
    /\ UNCHANGED <<webhook_queue, WEBHOOK_ENABLED, pump,
                   manuals, manual_total_steps, sessions, progress_events, messages,
                   next_uuid, now, loops>>

\* Mutant: only completed sessions are refused.
ValidateSessionActive_CompletedOnly(session) == session.status # "completed"

\* validate_session_active: the session accepts updates.
ValidateSessionActive(session) == session.status = "active"

\* Mutant: the upper bound check is off by one.
InvalidStepNumber_OffByOne(step, total_steps) ==
    step < 1 \/ step > total_steps + 1

\* Edge case 1: the step is not a step of the manual.
InvalidStepNumber(step, total_steps) == step < 1 \/ step > total_steps

\* Mutant: only the session's current step advances it (no skipping ahead).
ShouldIncrement_ExactStepOnly(st, step, current_step) ==
    st = "DONE" /\ step = current_step

\* Mutant: DONE advances whatever the session's position.
ShouldIncrement_IgnoresPosition(st, step, current_step) == st = "DONE"

\* should_increment: DONE for the session's current step or one ahead of it.
ShouldIncrement(st, step, current_step) ==
    st = "DONE" /\ step >= current_step

\* Mutant: the session is completed on reaching the last step, one step early.
SessionCompleted_OneEarly(current_step, total_steps) ==
    current_step >= total_steps

\* The session is completed once current_step is past the manual's last step.
SessionCompleted(current_step, total_steps) == current_step > total_steps

\* Mutant: the step bounds are checked before the session's status.
UpdateProgressResult_StepFirst(session, step, key) ==
    IF InvalidStepNumber(step, manual_total_steps) THEN "InvalidStep"
    ELSE IF ~ValidateSessionActive(session) THEN "SessionEnded"
    ELSE IF key # NoKey /\ ExistingEvent(session.id, key)
    THEN "DuplicateProgressUpdate"
    ELSE "OK"

\* The exception update_progress raises for these arguments on the loaded
\* session, "OK" when it raises none.
UpdateProgressResult(session, step, key) ==
    IF ~ValidateSessionActive(session) THEN "SessionEnded"
    ELSE IF InvalidStepNumber(step, manual_total_steps) THEN "InvalidStep"
    ELSE IF key # NoKey /\ ExistingEvent(session.id, key)
    THEN "DuplicateProgressUpdate"
    ELSE "OK"

\* The ProgressEvent row update_progress adds.
NewProgressEvent(session, step, st, key) ==
    [session_uuid |-> session.id,
     step_number |-> step,
     step_status |-> st,
     previous_step |-> session.current_step,
     processed |-> ShouldIncrement(st, step, session.current_step),
     idempotency_key |-> key]

\* Mutant: the advance is written without the version bump.
UpdateProgressWrite_NoVersionBump(r, session, step, st, t) ==
    LET inc == ShouldIncrement(st, step, session.current_step)
        completed == inc /\ SessionCompleted(step + 1, manual_total_steps)
    IN [r EXCEPT
          !.current_step = IF inc THEN step + 1 ELSE @,
          !.status = IF completed THEN "completed" ELSE @,
          !.ended_at = IF completed THEN t ELSE @,
          !.last_activity_at = t]

\* The UPDATE of row r that update_progress flushes at commit; the values
\* come from the session object as loaded.
UpdateProgressWrite(r, session, step, st, t) ==
    LET inc == ShouldIncrement(st, step, session.current_step)
        completed == inc /\ SessionCompleted(step + 1, manual_total_steps)
    IN [r EXCEPT
          !.current_step = IF inc THEN step + 1 ELSE @,
          !.version = IF inc THEN session.version + 1 ELSE @,
          !.status = IF completed THEN "completed" ELSE @,
          !.ended_at = IF completed THEN t ELSE @,
          !.last_activity_at = t]

\* Mutant: a submission refused for its step still records its event.
UpdateProgress_RecordsRejected(p) ==
    /\ procs[p].op = "progress"
    /\ procs[p].pc = "locked"
    /\ LET pr == procs[p]
           session == pr.snap
           res == UpdateProgressResult(session, pr.step, pr.key)
       IN IF res = "InvalidStep"
          THEN /\ progress_events' = Append(progress_events,
                      NewProgressEvent(session, pr.step, pr.step_status, pr.key))
               /\ Finish(p, res)
               /\ UNCHANGED sessions
          ELSE IF res # "OK"
          THEN Finish(p, res) /\ UNCHANGED <<sessions, progress_events>>
          ELSE /\ progress_events' = Append(progress_events,
                      NewProgressEvent(session, pr.step, pr.step_status, pr.key))
               /\ sessions' = {IF r.id = session.id
                               THEN UpdateProgressWrite(r, session, pr.step,
                                                        pr.step_status, now)
                               ELSE r : r \in sessions}
               /\ procs' = [procs EXCEPT ![p].pc = "committed",
                                         ![p].result = "OK"]
    /\ UNCHANGED <<webhook_queue, WEBHOOK_ENABLED, pump,
                   manuals, manual_total_steps, messages, next_uuid, now, ops, loops>>

\* The body of update_progress under the row lock, up to commit (or rollback).
UpdateProgress(p) ==
    /\ procs[p].op = "progress"
    /\ procs[p].pc = "locked"
    /\ LET pr == procs[p]
           session == pr.snap
           res == UpdateProgressResult(session, pr.step, pr.key)
       IN IF res # "OK"
          THEN Finish(p, res) /\ UNCHANGED <<sessions, progress_events>>
          ELSE /\ progress_events' = Append(progress_events,
                      NewProgressEvent(session, pr.step, pr.step_status, pr.key))
               /\ sessions' = {IF r.id = session.id
                               THEN UpdateProgressWrite(r, session, pr.step,
                                                        pr.step_status, now)
                               ELSE r : r \in sessions}
               /\ procs' = [procs EXCEPT ![p].pc = "committed",
                                         ![p].result = "OK"]
    /\ UNCHANGED <<webhook_queue, WEBHOOK_ENABLED, pump,
                   manuals, manual_total_steps, messages, next_uuid, now, ops, loops>>

\* update_progress after its commit: db.refresh(session) reloads the row as
\* the database holds it then, send_progress_update builds the payload from
\* the reloaded object and previous_step, and the ProgressResponse is built
\* from the same object; a row deleted in between makes refresh raise.
ProgressRespond(p) ==
    /\ procs[p].op = "progress"
    /\ procs[p].pc = "committed"
    /\ LET id == procs[p].snap.id
       IN IF ~RowExists(id)
          THEN Finish(p, "InternalError")
          ELSE LET session == RowById(id)
               IN procs' = [procs EXCEPT ![p] =
                      [IdleProc EXCEPT
                          !.op = "progress", !.pc = "done", !.result = "OK",
                          !.feedback_sent = WEBHOOK_ENABLED,
                          !.response =
                              [previous_step |-> procs[p].snap.current_step,
                               current_step |-> session.current_step,
                               status |-> session.status]]]
    /\ UNCHANGED <<webhook_queue, WEBHOOK_ENABLED, pump, manuals,
                   manual_total_steps, sessions, progress_events, messages,
                   next_uuid, now, ops, loops>>

\* --------------------------------------------------------- get_next_step
\* ManualService.get_step: the manual's steps are numbered 1..total_steps.
GetStep(step_number) ==
    IF step_number \in 1..manual_total_steps THEN step_number ELSE 0

\* is_completed as get_next_step computes it.
IsCompleted(session) ==
    session.current_step > manual_total_steps \/ session.status = "completed"

\* GET /sessions/{id}/next-step: one read of the session row; the response
\* keeps next_step.step_number in step (0: no next_step) and is_completed.
GetNextStep(p, sid) ==
    /\ Free(p)
    /\ ops < MaxOps
    /\ ops' = ops + 1
    /\ IF ~SessionExists(sid)
       THEN procs' = [procs EXCEPT ![p] =
                [IdleProc EXCEPT !.op = "next_step", !.pc = "done",
                                 !.session_id = sid, !.request = ops + 1,
                                 !.result = "SessionNotFound"]]
       ELSE LET session == SessionRow(sid)
                is_completed == IsCompleted(session)
                next_step ==
                    IF ~is_completed /\ session.current_step <= manual_total_steps
                    THEN GetStep(session.current_step) ELSE 0
            IN procs' = [procs EXCEPT ![p] =
                   [IdleProc EXCEPT !.op = "next_step", !.pc = "done",
                                    !.session_id = sid, !.snap = session,
                                    !.step = next_step,
                                    !.is_completed = is_completed,
                                    !.request = ops + 1, !.result = "OK"]]
    /\ UNCHANGED <<webhook_queue, WEBHOOK_ENABLED, pump,
                   manuals, manual_total_steps, sessions, progress_events, messages,
                   next_uuid, now, loops>>

\* ------------------------------------------------ update_session_status
\* PATCH /sessions/{id}: SessionService.update_session reads the row with
\* get_session (no lock) and checks for a reactivation.
UpdateSessionRead(p, sid, ns) ==
    /\ Free(p)
    /\ ops < MaxOps
    /\ ops' = ops + 1
    /\ LET req == [IdleProc EXCEPT !.op = "update", !.session_id = sid,
                                   !.new_status = ns]
       IN IF ~SessionExists(sid)
          THEN procs' = [procs EXCEPT ![p] =
                   [IdleProc EXCEPT !.op = "update", !.pc = "done",
                                    !.result = "SessionNotFound"]]
          ELSE IF ns # NoStatus /\ SessionRow(sid).status # "active" /\ ns = "active"
          THEN procs' = [procs EXCEPT ![p] =
                   [IdleProc EXCEPT !.op = "update", !.pc = "done",
                                    !.result = "SessionEnded"]]
          ELSE procs' = [procs EXCEPT ![p] =
                   [req EXCEPT !.pc = "read", !.snap = SessionRow(sid)]]
    /\ UNCHANGED <<webhook_queue, WEBHOOK_ENABLED, pump,
                   manuals, manual_total_steps, sessions, progress_events, messages,
                   next_uuid, now, loops>>

\* Mutant: update_session writes back every column of the row it loaded.
UpdateSessionWrite_WholeRow(r, loaded, ns, t) ==
    [loaded EXCEPT
       !.status = IF ns # NoStatus /\ ns # loaded.status THEN ns ELSE @,
       !.ended_at = IF ns \in {"completed", "abandoned"} THEN t ELSE @]

\* Mutant: update_session writes the status without ended_at.
UpdateSessionWrite_StatusOnly(r, loaded, ns, t) ==
    [r EXCEPT
       !.status = IF ns # NoStatus /\ ns # loaded.status THEN ns ELSE @]

\* The columns update_session assigns, flushed at commit as one UPDATE of the
\* row: status only when it differs from the loaded value, ended_at whenever
\* the requested status is completed or abandoned.
UpdateSessionWrite(r, loaded, ns, t) ==
    [r EXCEPT
       !.status = IF ns # NoStatus /\ ns # loaded.status THEN ns ELSE @,
       !.ended_at = IF ns \in {"completed", "abandoned"} THEN t ELSE @]

\* commit, reload, and the route's decision to send session_ended.
UpdateSessionCommit(p) ==
    /\ procs[p].op = "update"
    /\ procs[p].pc = "read"
    /\ LET pr == procs[p]
           id == pr.snap.id
       IN /\ CanWriteRow(p, id)
          /\ IF ~RowExists(id)
             THEN Finish(p, "StaleData") /\ UNCHANGED sessions
             ELSE LET new == UpdateSessionWrite(RowById(id), pr.snap,
                                                pr.new_status, now)
                  IN /\ sessions' = (sessions \ {RowById(id)}) \cup {new}
                     /\ IF new.status \in {"completed", "abandoned"}
                        THEN procs' = [procs EXCEPT ![p].pc = "committed",
                                                  ![p].result = "OK",
                                                  ![p].snap = new]
                        ELSE Finish(p, "OK")
    /\ UNCHANGED <<webhook_queue, WEBHOOK_ENABLED, pump,
                   manuals, manual_total_steps, progress_events, messages, next_uuid,
                   now, ops, loops>>

\* ----------------------------------------------------------- add_message
AddMessageRead(p, sid) ==
    /\ Free(p)
    /\ ops < MaxOps
    /\ ops' = ops + 1
    /\ IF ~SessionExists(sid)
       THEN procs' = [procs EXCEPT ![p] =
                [IdleProc EXCEPT !.op = "message", !.pc = "done",
                                 !.result = "SessionNotFound"]]
       ELSE IF SessionRow(sid).status # "active"
       THEN procs' = [procs EXCEPT ![p] =
                [IdleProc EXCEPT !.op = "message", !.pc = "done",
                                 !.result = "SessionEnded"]]
       ELSE procs' = [procs EXCEPT ![p] =
                [IdleProc EXCEPT !.op = "message", !.pc = "read",
                                 !.session_id = sid, !.snap = SessionRow(sid)]]
    /\ UNCHANGED <<webhook_queue, WEBHOOK_ENABLED, pump,
                   manuals, manual_total_steps, sessions, progress_events, messages,
                   next_uuid, now, loops>>

\* update_activity's commit: INSERT of the message and UPDATE of the row.
AddMessageCommit(p) ==
    /\ procs[p].op = "message"
    /\ procs[p].pc = "read"
    /\ LET pr == procs[p]
           id == pr.snap.id
       IN /\ CanWriteRow(p, id)
          /\ IF ~RowExists(id)
             THEN Finish(p, "StaleData") /\ UNCHANGED <<sessions, messages>>
             ELSE /\ messages' = Append(messages,
                        [session_uuid |-> id,
                         step_at_time |-> pr.snap.current_step])
                  /\ sessions' = (sessions \ {RowById(id)}) \cup
                        {[RowById(id) EXCEPT !.last_activity_at = now]}
                  /\ Finish(p, "OK")
    /\ UNCHANGED <<webhook_queue, WEBHOOK_ENABLED, pump,
                   manuals, manual_total_steps, progress_events, next_uuid, now, ops, loops>>

\* -------------------------------------------------------- delete_session
DeleteSessionRead(p, sid) ==
    /\ Free(p)
    /\ ops < MaxOps
    /\ ops' = ops + 1
    /\ IF ~SessionExists(sid)
       THEN procs' = [procs EXCEPT ![p] =
                [IdleProc EXCEPT !.op = "delete", !.pc = "done",
                                 !.result = "SessionNotFound"]]
       ELSE procs' = [procs EXCEPT ![p] =
                [IdleProc EXCEPT !.op = "delete", !.pc = "read",
                                 !.session_id = sid, !.snap = SessionRow(sid)]]
    /\ UNCHANGED <<webhook_queue, WEBHOOK_ENABLED, pump,
                   manuals, manual_total_steps, sessions, progress_events, messages,
                   next_uuid, now, loops>>

\* Mutant: the cascade empties the child table.
WithoutSession_Everything(table, id) == <<>>

\* Rows of a child table that survive the cascade.
WithoutSession(table, id) ==
    SelectSeq(table, LAMBDA e : e.session_uuid # id)

DeleteSessionCommit(p) ==
    /\ procs[p].op = "delete"
    /\ procs[p].pc = "read"
    /\ LET id == procs[p].snap.id
       IN /\ CanWriteRow(p, id)
          /\ sessions' = {r \in sessions : r.id # id}
          /\ progress_events' = WithoutSession(progress_events, id)
          /\ messages' = WithoutSession(messages, id)
          /\ Finish(p, "OK")
    /\ UNCHANGED <<webhook_queue, WEBHOOK_ENABLED, pump,
                   manuals, manual_total_steps, next_uuid, now, ops, loops>>

\* --------------------------------------------------- stale-session reaper
\* Mutant: the reaper abandons every active session, whatever its activity.
IsStale_IgnoresActivity(r) == r.status = "active"

\* cleanup_stale_sessions: one bulk UPDATE ... WHERE status = 'active' AND
\* last_activity_at < cutoff; it waits for rows another transaction has locked.
IsStale(r) ==
    /\ r.status = "active"
    /\ r.last_activity_at < now - session_timeout_minutes * 60

StaleSessionsAbandoned ==
    {IF IsStale(r)
     THEN [r EXCEPT !.status = "abandoned", !.ended_at = now]
     ELSE r : r \in sessions}

CleanupStaleSessions ==
    /\ \E r \in sessions : IsStale(r)
    /\ \A r \in sessions : IsStale(r) => ~RowLocked(r.id)
    /\ sessions' = StaleSessionsAbandoned
    /\ UNCHANGED <<webhook_queue, WEBHOOK_ENABLED, pump,
                   manuals, manual_total_steps, progress_events, messages, procs,
                   next_uuid, now, ops, loops>>

\* -------------------------------------------------------- webhook dispatch
\* The event a handler hands to FeedbackService after its commit.
EventType(op) ==
    CASE op = "create" -> "session_created"
      [] op = "progress" -> "progress_update"
      [] op = "update" -> "session_ended"
      [] OTHER -> "none"

\* The payload dict (the fields that identify the event).
Payload(p) ==
    [event_type |-> EventType(procs[p].op), session_id |-> procs[p].session_id]

\* json.dumps(payload): the text stored in WebhookQueueItem.payload.
JsonDumps(payload) == <<payload.event_type, payload.session_id>>

\* json.loads(item.payload)
JsonLoads(text) == [event_type |-> text[1], session_id |-> text[2]]

\* Mutant: the queued row does not keep the event's type.
NewQueueItem_DefaultType(payload, event_type, session_id, t) ==
    [payload |-> JsonDumps(payload), event_type |-> "progress_update",
     session_id |-> session_id, attempts |-> 0, last_error |-> NoError,
     status |-> "pending", next_retry_at |-> t, posts |-> 1]

\* WebhookRetryService.queue_webhook: the row it inserts. posts is history,
\* not a column: the HTTP POSTs made for the event so far (here the
\* immediate attempt that failed).
NewQueueItem(payload, event_type, session_id, t) ==
    [payload |-> JsonDumps(payload), event_type |-> event_type,
     session_id |-> session_id, attempts |-> 0, last_error |-> NoError,
     status |-> "pending", next_retry_at |-> t, posts |-> 1]

\* The handler returns after the feedback call: the outcome, and the bool
\* the feedback call returned.
FinishSent(p, fb) ==
    procs' = [procs EXCEPT ![p] =
        [IdleProc EXCEPT !.op = procs[p].op, !.pc = "done",
                         !.result = procs[p].result, !.feedback_sent = fb]]

\* send_*: nothing is sent when webhooks are disabled; otherwise
\* _send_with_retry makes the immediate attempt (_send_webhook), which
\* delivers or fails (timeout, non-2xx, transport error: all caught).
Dispatch(p, delivered) ==
    /\ procs[p].pc = "committed"
    /\ IF ~WEBHOOK_ENABLED THEN FinishSent(p, FALSE)
       ELSE IF delivered THEN FinishSent(p, TRUE)
       ELSE procs' = [procs EXCEPT ![p].pc = "send_failed"]
    /\ UNCHANGED <<webhook_queue, WEBHOOK_ENABLED, pump,
                   manuals, manual_total_steps,
                   sessions, progress_events, messages, next_uuid, now, ops, loops>>

\* Mutant: a failed hand-off to the queue is raised to the caller.
QueueForRetry_Raises(p, stored) ==
    /\ procs[p].pc = "send_failed"
    /\ IF stored
       THEN /\ webhook_queue' = Append(webhook_queue,
                   NewQueueItem(Payload(p), Payload(p).event_type,
                                procs[p].session_id, now))
            /\ FinishSent(p, TRUE)
       ELSE /\ Finish(p, "InternalError")
            /\ UNCHANGED webhook_queue
    /\ UNCHANGED <<WEBHOOK_ENABLED, pump, manuals, manual_total_steps, sessions,
                   progress_events, messages, next_uuid, now, ops, loops>>

\* Mutant: a queued event is reported as not sent.
QueueForRetry_ReportsFalse(p, stored) ==
    /\ procs[p].pc = "send_failed"
    /\ IF stored
       THEN /\ webhook_queue' = Append(webhook_queue,
                   NewQueueItem(Payload(p), Payload(p).event_type,
                                procs[p].session_id, now))
            /\ FinishSent(p, FALSE)
       ELSE /\ FinishSent(p, FALSE)
            /\ UNCHANGED webhook_queue
    /\ UNCHANGED <<WEBHOOK_ENABLED, pump, manuals, manual_total_steps, sessions,
                   progress_events, messages, next_uuid, now, ops, loops>>

\* Mutant: the hand-off to the queue inserts the row twice.
QueueForRetry_QueuesTwice(p, stored) ==
    /\ procs[p].pc = "send_failed"
    /\ IF stored
       THEN /\ webhook_queue' = webhook_queue \o
                   << NewQueueItem(Payload(p), Payload(p).event_type,
                                   procs[p].session_id, now),
                      NewQueueItem(Payload(p), Payload(p).event_type,
                                   procs[p].session_id, now) >>
            /\ FinishSent(p, TRUE)
       ELSE /\ FinishSent(p, FALSE)
            /\ UNCHANGED webhook_queue
    /\ UNCHANGED <<WEBHOOK_ENABLED, pump, manuals, manual_total_steps, sessions,
                   progress_events, messages, next_uuid, now, ops, loops>>

\* _send_with_retry after a failed immediate attempt: queue_webhook in a
\* session of its own; an exception there (store unavailable) is caught.
QueueForRetry(p, stored) ==
    /\ procs[p].pc = "send_failed"
    /\ IF stored
       THEN /\ webhook_queue' = Append(webhook_queue,
                   NewQueueItem(Payload(p), Payload(p).event_type,
                                procs[p].session_id, now))
            /\ FinishSent(p, TRUE)
       ELSE /\ FinishSent(p, FALSE)
            /\ UNCHANGED webhook_queue
    /\ UNCHANGED <<WEBHOOK_ENABLED, pump, manuals, manual_total_steps, sessions,
                   progress_events, messages, next_uuid, now, ops, loops>>

\* ------------------------------------------------------------ retry queue
\* Mutant: the delay doubles instead of quadrupling.
CalculateNextRetry_Doubling(attempt, t) ==
    t + BASE_DELAY_SECONDS * 2 ^ (attempt - 1)

\* _calculate_next_retry
CalculateNextRetry(attempt, t) ==
    t + BASE_DELAY_SECONDS * 4 ^ (attempt - 1)

\* WebhookRetryService.send_with_retry: the service's own immediate attempt;
\* on failure the row is inserted with the attempt counted.
SendWithRetry(event_type, sid, error) ==
    /\ ops < MaxOps
    /\ ops' = ops + 1
    /\ IF ~WEBHOOK_ENABLED \/ error = NoError
       THEN UNCHANGED webhook_queue
       ELSE webhook_queue' = Append(webhook_queue,
               [payload |-> JsonDumps([event_type |-> event_type,
                                       session_id |-> sid]),
                event_type |-> event_type, session_id |-> sid,
                attempts |-> 1, last_error |-> error, status |-> "pending",
                next_retry_at |-> CalculateNextRetry(1, now), posts |-> 1])
    /\ UNCHANGED <<WEBHOOK_ENABLED, pump, manuals, manual_total_steps, sessions,
                   progress_events, messages, procs, next_uuid, now, loops>>

\* Mutant: the sweep selects due rows whatever their status.
IsDue_AnyStatus(i) == webhook_queue[i].next_retry_at <= now

\* WHERE status = 'pending' AND next_retry_at <= now
IsDue(i) ==
    /\ webhook_queue[i].status = "pending"
    /\ webhook_queue[i].next_retry_at <= now

\* The batches the SELECT ... LIMIT may return: every due row when there
\* are at most BatchLimit of them, otherwise any BatchLimit of them (the
\* query has no ORDER BY).
Batches ==
    LET due == {i \in DOMAIN webhook_queue : IsDue(i)}
    IN IF Cardinality(due) <= BatchLimit THEN {due}
       ELSE {b \in SUBSET due : Cardinality(b) = BatchLimit}

\* process_retry_queue: the worker wakes up and loads the batch.
ProcessRetryQueue ==
    /\ pump.pc = "sleep"
    /\ \E b \in Batches :
          /\ b # {}
          /\ pump' = [pc |-> "batch", items |-> b]
    /\ UNCHANGED <<webhook_queue, WEBHOOK_ENABLED, manuals, manual_total_steps,
                   sessions, progress_events, messages, procs, next_uuid,
                   now, ops, loops>>

\* Mutant: a row is given up only after MAX_ATTEMPTS is exceeded.
RetriedItem_GivesUpLate(item, error, t) ==
    LET attempts == item.attempts + 1
    IN IF error = NoError
       THEN [item EXCEPT !.attempts = attempts, !.status = "success",
                         !.posts = @ + 1]
       ELSE IF attempts > MAX_ATTEMPTS
       THEN [item EXCEPT !.attempts = attempts, !.status = "failed",
                         !.last_error = error, !.posts = @ + 1]
       ELSE [item EXCEPT !.attempts = attempts, !.last_error = error,
                         !.next_retry_at = CalculateNextRetry(attempts, t),
                         !.posts = @ + 1]

\* The row after _process_single_retry's attempt: error = NoError when the
\* POST succeeded.
RetriedItem(item, error, t) ==
    LET attempts == item.attempts + 1
    IN IF error = NoError
       THEN [item EXCEPT !.attempts = attempts, !.status = "success",
                         !.posts = @ + 1]
       ELSE IF attempts >= MAX_ATTEMPTS
       THEN [item EXCEPT !.attempts = attempts, !.status = "failed",
                         !.last_error = error, !.posts = @ + 1]
       ELSE [item EXCEPT !.attempts = attempts, !.last_error = error,
                         !.next_retry_at = CalculateNextRetry(attempts, t),
                         !.posts = @ + 1]

\* _process_single_retry for one row of the loaded batch.
ProcessSingleRetry(i, error) ==
    /\ pump.pc = "batch"
    /\ i \in pump.items
    /\ webhook_queue' = [webhook_queue EXCEPT
                            ![i] = RetriedItem(webhook_queue[i], error, now)]
    /\ pump' = IF pump.items = {i} THEN IdlePump
               ELSE [pump EXCEPT !.items = @ \ {i}]
    /\ UNCHANGED <<WEBHOOK_ENABLED, manuals, manual_total_steps, sessions,
                   progress_events, messages, procs, next_uuid, now, ops, loops>>

\* _process_single_retry when db.commit() raises: the POST has been made;
\* the except branch rolls the sweep's session back, which discards the
\* row's new values and expires every object the session holds, the rest
\* of the batch included.
ProcessSingleRetryRollback(i) ==
    /\ pump.pc = "batch"
    /\ i \in pump.items
    /\ webhook_queue[i].posts < MaxPosts
    /\ webhook_queue' = [webhook_queue EXCEPT ![i].posts = @ + 1]
    /\ pump' = IF pump.items = {i} THEN IdlePump
               ELSE [pc |-> "expired", items |-> pump.items \ {i}]
    /\ UNCHANGED <<WEBHOOK_ENABLED, manuals, manual_total_steps, sessions,
                   progress_events, messages, procs, next_uuid, now, ops, loops>>

\* _process_single_retry for a row of the batch once the session was rolled
\* back: reading item.payload has to reload the expired row, which raises
\* in the async session before anything is sent; the except branch rolls
\* back again.
ProcessExpiredItem(i) ==
    /\ pump.pc = "expired"
    /\ i \in pump.items
    /\ pump' = IF pump.items = {i} THEN IdlePump
               ELSE [pump EXCEPT !.items = @ \ {i}]
    /\ UNCHANGED <<webhook_queue, WEBHOOK_ENABLED, manuals, manual_total_steps,
                   sessions, progress_events, messages, procs, next_uuid,
                   now, ops, loops>>

\* ------------------------------------------------------------- clock
Tick ==
    /\ now + ClockStep <= MaxTime * 60
    /\ now' = now + ClockStep
    /\ UNCHANGED <<webhook_queue, WEBHOOK_ENABLED, pump,
                   manuals, manual_total_steps, sessions, progress_events, messages,
                   procs, next_uuid, ops, loops>>

\* ------------------------------------------------------ background loops
\* Mutant: the loops catch database errors only.
CaughtByLoop_DatabaseOnly(exc) == exc = "SQLAlchemyError"

\* "except Exception" around a duty's iteration (BackgroundTaskService.start
\* and start_retry_worker alike): every Exception is caught and logged;
\* CancelledError is not an Exception and leaves the loop.
CaughtByLoop(exc) == exc \in LoopErrors

\* The loop after an iteration that raised exc (NoError: it returned): it
\* sleeps for its interval, or the task has ended with the exception.
AfterIteration(d, exc) ==
    IF exc = NoError \/ CaughtByLoop(exc)
    THEN [pc |-> "sleep", wake |-> now + Interval(d), raised |-> exc]
    ELSE [pc |-> "ended", wake |-> loops[d].wake, raised |-> exc]

\* asyncio.sleep returns once the interval has passed; the loop tests
\* is_running and starts its next iteration.
LoopWake(d) ==
    /\ loops[d].pc = "sleep"
    /\ now >= loops[d].wake
    /\ loops' = [loops EXCEPT ![d].pc = "run"]
    /\ UNCHANGED <<manuals, manual_total_steps, sessions, progress_events,
                   messages, procs, next_uuid, now, ops, webhook_queue,
                   WEBHOOK_ENABLED, pump>>

\* One iteration of the reaper loop: cleanup_stale_sessions, which either
\* commits its UPDATE or raises exc with nothing written.
CleanupIteration(exc) ==
    /\ loops["cleanup"].pc = "run"
    /\ IF exc = NoError
       THEN /\ \A r \in sessions : IsStale(r) => ~RowLocked(r.id)
            /\ sessions' = StaleSessionsAbandoned
       ELSE UNCHANGED sessions
    /\ loops' = [loops EXCEPT !["cleanup"] = AfterIteration("cleanup", exc)]
    /\ UNCHANGED <<manuals, manual_total_steps, progress_events, messages,
                   procs, next_uuid, now, ops, webhook_queue,
                   WEBHOOK_ENABLED, pump>>

\* One iteration of the retry worker's loop: process_retry_queue, which
\* either retries the batch it selected (error: what the receiver answers
\* during this sweep) or raises exc before anything is sent.
RetryIteration(exc, error) ==
    /\ loops["retry"].pc = "run"
    /\ pump.pc = "sleep"
    /\ IF exc = NoError
       THEN \E b \in Batches :
              webhook_queue' =
                 [i \in DOMAIN webhook_queue |->
                     IF i \in b THEN RetriedItem(webhook_queue[i], error, now)
                     ELSE webhook_queue[i]]
       ELSE UNCHANGED webhook_queue
    /\ loops' = [loops EXCEPT !["retry"] = AfterIteration("retry", exc)]
    /\ UNCHANGED <<manuals, manual_total_steps, sessions, progress_events,
                   messages, procs, next_uuid, now, ops, WEBHOOK_ENABLED, pump>>

\* The lifespan's shutdown: stop() and cancel() end both tasks; a task
\* that is waiting gets CancelledError at its await.
Shutdown ==
    /\ \E d \in Duties : loops[d].pc # "ended"
    /\ loops' = [d \in Duties |->
                   IF loops[d].pc = "ended" THEN loops[d]
                   ELSE AfterIteration(d, Cancelled)]
    /\ UNCHANGED <<manuals, manual_total_steps, sessions, progress_events,
                   messages, procs, next_uuid, now, ops, webhook_queue,
                   WEBHOOK_ENABLED, pump>>

\* The service with the webhook receiver answering every POST.
Next ==
    \/ \E p \in Procs, sid \in SessionIds : CreateSession(p, sid)
    \/ \E p \in Procs, sid \in SessionIds, step \in 0..(MaxSteps + 1),
          st \in StepStatus, key \in Keys \cup {NoKey} :
            SubmitProgress(p, sid, step, st, key)
    \/ \E p \in Procs : UpdateProgress(p)
    \/ \E p \in Procs, sid \in SessionIds, ns \in SessionStatus \cup {NoStatus} :
            UpdateSessionRead(p, sid, ns)
    \/ \E p \in Procs : UpdateSessionCommit(p)
    \/ \E p \in Procs, sid \in SessionIds : AddMessageRead(p, sid)
    \/ \E p \in Procs : AddMessageCommit(p)
    \/ \E p \in Procs, sid \in SessionIds : DeleteSessionRead(p, sid)
    \/ \E p \in Procs : DeleteSessionCommit(p)
    \/ \E p \in Procs : Dispatch(p, TRUE)
    \/ CleanupStaleSessions
    \/ Tick

Spec == Init /\ [][Next]_vars

\* The operations that produce webhook events, with webhooks enabled or
\* disabled, a receiver that may fail any POST and a store that may fail
\* any insert into the queue.
DeliveryInit ==
    /\ manuals = {SeededManual}
    /\ manual_total_steps \in 1..MaxSteps
    /\ sessions = {}
    /\ progress_events = <<>>
    /\ messages = <<>>
    /\ procs = [p \in Procs |-> IdleProc]
    /\ next_uuid = 1
    /\ now = 0
    /\ ops = 0
    /\ webhook_queue = <<>>
    /\ WEBHOOK_ENABLED \in BOOLEAN
    /\ pump = IdlePump
    /\ loops = StartedLoops

DeliveryNext ==
    \/ \E p \in Procs, sid \in SessionIds : CreateSession(p, sid)
    \/ \E p \in Procs, sid \in SessionIds, step \in 1..MaxSteps,
          st \in StepStatus, key \in Keys \cup {NoKey} :
            SubmitProgress(p, sid, step, st, key)
    \/ \E p \in Procs : UpdateProgress(p)
    \/ \E p \in Procs, sid \in SessionIds, ns \in {"completed", "abandoned"} :
            UpdateSessionRead(p, sid, ns)
    \/ \E p \in Procs : UpdateSessionCommit(p)
    \/ \E p \in Procs, delivered \in BOOLEAN : Dispatch(p, delivered)
    \/ \E p \in Procs, stored \in BOOLEAN : QueueForRetry(p, stored)

DeliverySpec == DeliveryInit /\ [][DeliveryNext]_vars

\* The retry queue: both ways a row gets into it, the retry worker, and
\* the deletion of the session a row names.
RetryNext ==
    \/ \E p \in Procs, sid \in SessionIds : CreateSession(p, sid)
    \/ \E p \in Procs, sid \in SessionIds : DeleteSessionRead(p, sid)
    \/ \E p \in Procs : DeleteSessionCommit(p)
    \/ \E p \in Procs, delivered \in BOOLEAN : Dispatch(p, delivered)
    \/ \E p \in Procs, stored \in BOOLEAN : QueueForRetry(p, stored)
    \/ \E sid \in SessionIds, error \in Errors \cup {NoError} :
            SendWithRetry("progress_update", sid, error)
    \/ ProcessRetryQueue
    \/ \E i \in DOMAIN webhook_queue, error \in Errors \cup {NoError} :
            ProcessSingleRetry(i, error)
    \/ Tick

RetrySpec == Init /\ [][RetryNext]_vars

\* One sweep after another over a queue of several rows, with a receiver
\* that may fail any POST and a store that may fail any commit.
SweepNext ==
    \/ \E sid \in SessionIds, error \in Errors \cup {NoError} :
            SendWithRetry("progress_update", sid, error)
    \/ ProcessRetryQueue
    \/ \E i \in DOMAIN webhook_queue, error \in Errors \cup {NoError} :
            ProcessSingleRetry(i, error)
    \/ \E i \in DOMAIN webhook_queue : ProcessSingleRetryRollback(i)
    \/ \E i \in DOMAIN webhook_queue : ProcessExpiredItem(i)
    \/ Tick

SweepSpec == Init /\ [][SweepNext]_vars

\* get_next_step beside the writers that move and end a session.
ReadNext ==
    \/ \E p \in Procs, sid \in SessionIds : CreateSession(p, sid)
    \/ \E p \in Procs, sid \in SessionIds, step \in 1..MaxSteps,
          st \in StepStatus : SubmitProgress(p, sid, step, st, NoKey)
    \/ \E p \in Procs : UpdateProgress(p)
    \/ \E p \in Procs, sid \in SessionIds, ns \in {"completed", "abandoned"} :
            UpdateSessionRead(p, sid, ns)
    \/ \E p \in Procs : UpdateSessionCommit(p)
    \/ \E p \in Procs, sid \in SessionIds : GetNextStep(p, sid)
    \/ \E p \in Procs : Dispatch(p, TRUE)

ReadSpec == Init /\ [][ReadNext]_vars

\* Sessions and the manual they use: concurrent create_session requests,
\* the ways a session ends or goes away, and delete_manual.
ManualNext ==
    \/ \E p \in Procs, sid \in SessionIds, mid \in ManualIds :
            CreateSessionRead(p, sid, mid)
    \/ \E p \in Procs : CreateSessionCommit(p)
    \/ \E p \in Procs, sid \in SessionIds, ns \in {"completed", "abandoned"} :
            UpdateSessionRead(p, sid, ns)
    \/ \E p \in Procs : UpdateSessionCommit(p)
    \/ \E p \in Procs, sid \in SessionIds : DeleteSessionRead(p, sid)
    \/ \E p \in Procs : DeleteSessionCommit(p)
    \/ \E p \in Procs, mid \in ManualIds : DeleteManual(p, mid)
    \/ \E p \in Procs : Dispatch(p, TRUE)

ManualSpec == Init /\ [][ManualNext]_vars

\* Two sessions.
SessionPair == {"s1", "s2"}

\* The reaper next to the handlers that refresh last_activity_at, over two
\* sessions created at different times.
ReaperNext ==
    \/ \E p \in Procs, sid \in SessionPair : CreateSession(p, sid)
    \/ \E p \in Procs, sid \in SessionPair :
            SubmitProgress(p, sid, 1, "DONE", NoKey)
    \/ \E p \in Procs : UpdateProgress(p)
    \/ \E p \in Procs, sid \in SessionPair : AddMessageRead(p, sid)
    \/ \E p \in Procs : AddMessageCommit(p)
    \/ \E p \in Procs : Dispatch(p, TRUE)
    \/ CleanupStaleSessions
    \/ Tick

ReaperSpec == Init /\ [][ReaperNext]_vars

\* Two sessions of the manual, both just created.
PairInit ==
    /\ manuals = {SeededManual}
    /\ manual_total_steps \in 1..MaxSteps
    /\ sessions = {[id |-> n, session_id |-> IF n = 1 THEN "s1" ELSE "s2",
                    current_step |-> 1, status |-> "active",
                    ended_at |-> Null, last_activity_at |-> 0,
                    version |-> 1] : n \in 1..2}
    /\ progress_events = <<>>
    /\ messages = <<>>
    /\ procs = [p \in Procs |-> IdleProc]
    /\ next_uuid = 3
    /\ now = 0
    /\ ops = 0
    /\ webhook_queue = <<>>
    /\ WEBHOOK_ENABLED = TRUE
    /\ pump = IdlePump
    /\ loops = StartedLoops

\* Progress submissions and messages on the two sessions side by side.
PairNext ==
    \/ \E p \in Procs, sid \in SessionPair, st \in StepStatus,
          key \in Keys \cup {NoKey} : SubmitProgress(p, sid, 1, st, key)
    \/ \E p \in Procs : UpdateProgress(p)
    \/ \E p \in Procs, sid \in SessionPair : AddMessageRead(p, sid)
    \/ \E p \in Procs : AddMessageCommit(p)
    \/ \E p \in Procs : Dispatch(p, TRUE)

PairSpec == PairInit /\ [][PairNext]_vars

\* The deletion of one of two sessions that have events, messages and
\* queued webhooks.
CascadeNext ==
    \/ \E p \in Procs, sid \in SessionPair :
            SubmitProgress(p, sid, 1, "DONE", NoKey)
    \/ \E p \in Procs : UpdateProgress(p)
    \/ \E p \in Procs, sid \in SessionPair : AddMessageRead(p, sid)
    \/ \E p \in Procs : AddMessageCommit(p)
    \/ \E p \in Procs, sid \in SessionPair : DeleteSessionRead(p, sid)
    \/ \E p \in Procs : DeleteSessionCommit(p)
    \/ \E p \in Procs, delivered \in BOOLEAN : Dispatch(p, delivered)
    \/ \E p \in Procs : QueueForRetry(p, TRUE)

CascadeSpec == PairInit /\ [][CascadeNext]_vars

\* The two background loops with iterations that can raise, over two idle
\* sessions and beside failing deliveries, which give them work.
LoopNext ==
    \/ \E sid \in SessionIds : SendWithRetry("progress_update", sid, "Timeout")
    \/ \E d \in Duties : LoopWake(d)
    \/ \E exc \in LoopErrors \cup {NoError} : CleanupIteration(exc)
    \/ \E exc \in LoopErrors \cup {NoError}, error \in {"Timeout", NoError} :
            RetryIteration(exc, error)
    \/ Shutdown
    \/ Tick

\* The event loop runs every task that is ready and time passes: a loop
\* whose sleep is over wakes, and an iteration that has started ends.
LoopSpec ==
    /\ PairInit
    /\ [][LoopNext]_vars
    /\ WF_vars(Tick)
    /\ \A d \in Duties : WF_vars(LoopWake(d))
    /\ WF_vars(\E exc \in LoopErrors \cup {NoError} : CleanupIteration(exc))
    /\ WF_vars(\E exc \in LoopErrors \cup {NoError},
                  error \in {"Timeout", NoError} : RetryIteration(exc, error))

\* One session of the manual, just created.
SeededInit ==
    /\ manuals = {SeededManual}
    /\ manual_total_steps \in 1..MaxSteps
    /\ sessions = {[id |-> 1, session_id |-> "s1", current_step |-> 1,
                    status |-> "active", ended_at |-> Null,
                    last_activity_at |-> 0, version |-> 1]}
    /\ progress_events = <<>>
    /\ messages = <<>>
    /\ procs = [p \in Procs |-> IdleProc]
    /\ next_uuid = 2
    /\ now = 0
    /\ ops = 0
    /\ webhook_queue = <<>>
    /\ WEBHOOK_ENABLED = TRUE
    /\ pump = IdlePump
    /\ loops = StartedLoops

\* The progress engine on an existing session: submissions with every step,
\* status and key, and the session's deletion.
EngineNext ==
    \/ \E p \in Procs, sid \in SessionIds, step \in 1..(MaxSteps + 1),
          st \in StepStatus, key \in Keys \cup {NoKey} :
            SubmitProgress(p, sid, step, st, key)
    \/ \E p \in Procs : UpdateProgress(p)
    \/ \E p \in Procs, sid \in SessionIds : DeleteSessionRead(p, sid)
    \/ \E p \in Procs : DeleteSessionCommit(p)
    \/ \E p \in Procs : Dispatch(p, TRUE)

EngineSpec == SeededInit /\ [][EngineNext]_vars

\* Submissions on one session with the response each of them builds.
ResponseNext ==
    \/ \E p \in Procs, sid \in SessionIds, step \in 1..MaxSteps,
          st \in StepStatus, key \in Keys \cup {NoKey} :
            SubmitProgress(p, sid, step, st, key)
    \/ \E p \in Procs : UpdateProgress(p)
    \/ \E p \in Procs : ProgressRespond(p)

ResponseSpec == SeededInit /\ [][ResponseNext]_vars

\* Submissions that all carry the idempotency key, on one session.
KeyedNext ==
    \/ \E p \in Procs, sid \in SessionIds, step \in 1..(MaxSteps + 1),
          st \in StepStatus, key \in Keys :
            SubmitProgress(p, sid, step, st, key)
    \/ \E p \in Procs : UpdateProgress(p)
    \/ \E p \in Procs : Dispatch(p, TRUE)

KeyedSpec == SeededInit /\ [][KeyedNext]_vars

\* ====================================================================
\* Properties
\* ====================================================================

\* This step is handler p running update_progress (from lock to commit or raise).
ProgressStep(p) ==
    /\ procs[p].op = "progress"
    /\ procs[p].pc = "locked"
    /\ procs'[p].pc # "locked"

\* The session row handler p works on, as the database holds it.
TargetRow(p) == RowById(procs[p].snap.id)

\* The same row after the step.
TargetRowAfter(p) == CHOOSE r \in sessions' : r.id = procs[p].snap.id

\* ------------------------------------------------------------------ C1
\* C1 as stated: every submit_progress whose requested_step is outside
\* [1, N] fails with InvalidStep and changes nothing.
C1_OutOfRangeAlwaysInvalidStep ==
    [][\A p \in Procs :
         (ProgressStep(p) /\ procs[p].step \notin 1..manual_total_steps)
         => /\ procs'[p].result = "InvalidStep"
            /\ sessions' = sessions
            /\ progress_events' = progress_events]_vars

\* C1 amended: a submit_progress whose requested_step is outside [1, N]
\* never changes a session and inserts no ProgressEvent; it fails with
\* InvalidStep when the session is active, and with SessionEnded when the
\* session has already ended (a step below 1 is refused by request
\* validation before the engine runs, also without any change).
C1_OutOfRangeRejected ==
    [][\A p \in Procs :
         /\ (ProgressStep(p) /\ procs[p].step \notin 1..manual_total_steps)
            => /\ procs'[p].pc = "done"
               /\ procs'[p].result =
                     IF TargetRow(p).status = "active"
                     THEN "InvalidStep" ELSE "SessionEnded"
               /\ sessions' = sessions
               /\ progress_events' = progress_events
         /\ ( /\ ops' # ops
              /\ procs'[p].op = "progress"
              /\ procs'[p].result = "ValidationError"
              /\ \A q \in Procs \ {p} : procs'[q] = procs[q] )
            => /\ sessions' = sessions
               /\ progress_events' = progress_events]_vars

\* A submission past the manual's last step was refused on an active session.
C1_Witness ==
    \E p \in Procs : procs[p].op = "progress" /\ procs[p].result = "InvalidStep"

\* ------------------------------------------------------------------ C2
\* At most one ProgressEvent per (session, idempotency_key).
OneEventPerKey ==
    \A i, j \in DOMAIN progress_events :
        ( /\ progress_events[i].idempotency_key # NoKey
          /\ progress_events[i].idempotency_key = progress_events[j].idempotency_key
          /\ progress_events[i].session_uuid = progress_events[j].session_uuid )
        => i = j

\* This step is handler p resubmitting a key already recorded for the session.
ResubmitStep(p) ==
    /\ ProgressStep(p)
    /\ procs[p].key # NoKey
    /\ ExistingEvent(procs[p].snap.id, procs[p].key)

\* This step is handler p repeating, key and arguments, a submission that
\* was accepted before.
RepeatStep(p) ==
    /\ ProgressStep(p)
    /\ procs[p].key # NoKey
    /\ \E i \in DOMAIN progress_events :
          /\ progress_events[i].session_uuid = procs[p].snap.id
          /\ progress_events[i].idempotency_key = procs[p].key
          /\ progress_events[i].step_number = procs[p].step
          /\ progress_events[i].step_status = procs[p].step_status

\* C2 as stated: whatever the first call did, the second submission of the
\* same (session, key) fails with DuplicateProgressUpdate.
C2_SecondAlwaysDuplicate ==
    [][\A p \in Procs :
         RepeatStep(p) => procs'[p].result = "DuplicateProgressUpdate"]_vars

\* C2 amended: once a submission with key k was accepted for a session, a
\* later submission with k changes nothing (one ProgressEvent row for k;
\* current_step, version and status keep the first call's effect) and
\* fails: with DuplicateProgressUpdate when the session is still active and
\* the step is in range, with SessionEnded when the session has ended
\* (for instance because the first call completed it), with InvalidStep
\* when the session is active and the step is out of range.
C2_Idempotent ==
    /\ []OneEventPerKey
    /\ [][\A p \in Procs :
            ResubmitStep(p)
            => /\ procs'[p].pc = "done"
               /\ procs'[p].result =
                     IF TargetRow(p).status # "active" THEN "SessionEnded"
                     ELSE IF procs[p].step \notin 1..manual_total_steps
                     THEN "InvalidStep"
                     ELSE "DuplicateProgressUpdate"
               /\ sessions' = sessions
               /\ progress_events' = progress_events]_vars

\* A resubmitted key was answered as a duplicate.
C2_Witness ==
    \E p \in Procs :
        /\ procs[p].op = "progress"
        /\ procs[p].result = "DuplicateProgressUpdate"
        /\ \E i \in DOMAIN progress_events :
               progress_events[i].idempotency_key # NoKey

\* ------------------------------------------------------------------ C3
\* C3: a submit_progress on a session that is completed or abandoned fails
\* with SessionEnded, leaves every session field and every ProgressEvent
\* unchanged, and returns without reaching the webhook dispatch.
C3_TerminalLock ==
    [][\A p \in Procs :
         (ProgressStep(p) /\ TargetRow(p).status \in {"completed", "abandoned"})
         => /\ procs'[p].pc = "done"
            /\ procs'[p].result = "SessionEnded"
            /\ sessions' = sessions
            /\ progress_events' = progress_events]_vars

\* A submission was refused on an abandoned session.
C3_Witness ==
    \E p \in Procs, r \in sessions :
        /\ procs[p].op = "progress"
        /\ procs[p].result = "SessionEnded"
        /\ r.status = "abandoned"

C5_CompletedOnlyPastLastStep ==
    \A r \in sessions :
        r.status = "completed" => r.current_step = manual_total_steps + 1

\* C5 amended: submit_progress marks a session completed, with ended_at
\* stamped, exactly when it is a DONE submission that advances current_step
\* past N, and never before; any other accepted submission leaves status
\* and ended_at as they were. (A session is also marked completed, at any
\* current_step, by an explicit update_session_status.)
C5_CompletionByProgress ==
    [][\A p \in Procs :
         (ProgressStep(p) /\ procs'[p].result = "OK")
         => LET before == TargetRow(p)
                after == TargetRowAfter(p)
            IN IF /\ procs[p].step_status = "DONE"
                  /\ procs[p].step >= before.current_step
                  /\ procs[p].step + 1 > manual_total_steps
               THEN /\ after.status = "completed"
                    /\ after.ended_at # Null
                    /\ after.current_step = manual_total_steps + 1
               ELSE /\ after.status = before.status
                    /\ after.ended_at = before.ended_at
                    /\ after.current_step <= manual_total_steps]_vars

\* A session was completed by the DONE submission of its last step, and
\* another was left active by a DONE submission that did not pass the last step.
C5_Witness ==
    \E r \in sessions :
        /\ r.status = "completed"
        /\ r.ended_at # Null
        /\ r.current_step = manual_total_steps + 1
        /\ \E i, j \in DOMAIN progress_events :
              /\ i < j
              /\ progress_events[i].session_uuid = r.id
              /\ progress_events[i].processed
              /\ progress_events[i].step_number < manual_total_steps
              /\ progress_events[j].session_uuid = r.id
              /\ progress_events[j].processed
              /\ progress_events[j].step_number = manual_total_steps

\* ------------------------------------------------------------------ C6
\* C6: no step changes the status of a session that is completed or abandoned.
C6_TerminalStatus ==
    [][\A r \in sessions : \A r2 \in sessions' :
         (r.id = r2.id /\ r.status \in {"completed", "abandoned"})
         => r2.status = r.status]_vars

\* ------------------------------------------------------------------ C7
\* C7: once ended_at is set, no step changes it.
C7_EndedAtSetOnce ==
    [][\A r \in sessions : \A r2 \in sessions' :
         (r.id = r2.id /\ r.ended_at # Null) => r2.ended_at = r.ended_at]_vars

\* ------------------------------------------------------------------ C8
\* C8: no step decreases a session's current_step, and a submission with
\* requested_step < current_step leaves current_step as it is.
C8_MonotonicStep ==
    [][/\ \A r \in sessions : \A r2 \in sessions' :
            r.id = r2.id => r2.current_step >= r.current_step
       /\ \A p \in Procs :
            (ProgressStep(p) /\ procs[p].step < TargetRow(p).current_step)
            => TargetRowAfter(p).current_step = TargetRow(p).current_step]_vars

\* A session advanced and then took a submission for a step it had passed.
C8_Witness ==
    \E r \in sessions : \E i \in DOMAIN progress_events :
        /\ progress_events[i].session_uuid = r.id
        /\ progress_events[i].step_number < progress_events[i].previous_step
        /\ r.current_step = progress_events[i].previous_step
        /\ r.current_step > 1

\* ------------------------------------------------------------------ C9
\* This step is handler p running a stale submission: step in range and
\* below current_step, on an active session.
StaleStep(p) ==
    /\ ProgressStep(p)
    /\ TargetRow(p).status = "active"
    /\ procs[p].step \in 1..manual_total_steps
    /\ procs[p].step < TargetRow(p).current_step

\* What a stale submission does when it is accepted.
StaleAccepted(p) ==
    /\ procs'[p].result = "OK"
    /\ progress_events' = Append(progress_events,
          [session_uuid |-> procs[p].snap.id,
           step_number |-> procs[p].step,
           step_status |-> procs[p].step_status,
           previous_step |-> TargetRow(p).current_step,
           processed |-> FALSE,
           idempotency_key |-> procs[p].key])
    /\ TargetRowAfter(p).current_step = TargetRow(p).current_step
    /\ TargetRowAfter(p).version = TargetRow(p).version
    /\ TargetRowAfter(p).status = TargetRow(p).status

\* C9 as stated: a stale submission is never rejected.
C9_StaleNeverRejected ==
    [][\A p \in Procs : StaleStep(p) => StaleAccepted(p)]_vars

\* C9 amended: a stale submission whose idempotency_key, if it has one, is
\* not yet recorded for the session is never rejected: it succeeds, inserts
\* exactly one ProgressEvent with processed = false and previous_step = the
\* session's current_step, and leaves current_step, version and status
\* unchanged. (With a key already recorded it fails as a duplicate.)
C9_StaleAcceptedUnlessDuplicate ==
    [][\A p \in Procs :
         StaleStep(p)
         => IF procs[p].key # NoKey /\ ExistingEvent(procs[p].snap.id, procs[p].key)
            THEN /\ procs'[p].result = "DuplicateProgressUpdate"
                 /\ sessions' = sessions
                 /\ progress_events' = progress_events
            ELSE StaleAccepted(p)]_vars

\* A stale DONE submission was recorded without being processed.
C9_Witness ==
    \E i \in DOMAIN progress_events :
        /\ progress_events[i].step_status = "DONE"
        /\ ~progress_events[i].processed
        /\ progress_events[i].step_number < progress_events[i].previous_step

\* ----------------------------------------------------------------- C10
\* At most one handler holds the lock of a row, and the row (with the
\* session's events) stays as the holder read it.
LockExcludes ==
    \A p, q \in Procs :
        (p # q /\ procs[p].pc = "locked" /\ procs[q].pc = "locked")
        => procs[p].snap.id # procs[q].snap.id

LockedRowStable ==
    \A p \in Procs :
        procs[p].pc = "locked"
        => RowExists(procs[p].snap.id) /\ TargetRow(p) = procs[p].snap

\* C10: submissions for one session are serialized by the row lock: each
\* commits the result of running update_progress alone on the state the
\* database holds at that moment (session row and ProgressEvents as left by
\* the submissions that locked the row before it).
C10_Serialized ==
    /\ [](LockExcludes /\ LockedRowStable)
    /\ [][\A p \in Procs :
            ProgressStep(p)
            => LET db == TargetRow(p)
                   res == UpdateProgressResult(db, procs[p].step, procs[p].key)
               IN /\ procs'[p].result = res
                  /\ IF res = "OK"
                     THEN /\ sessions' = (sessions \ {db}) \cup
                               {UpdateProgressWrite(db, db, procs[p].step,
                                                    procs[p].step_status, now)}
                          /\ progress_events' = Append(progress_events,
                               NewProgressEvent(db, procs[p].step,
                                                procs[p].step_status, procs[p].key))
                     ELSE /\ sessions' = sessions
                          /\ progress_events' = progress_events]_vars

\* Two submissions overlap on one session: one has committed an advance and
\* not yet returned, the other holds the row lock and has read that advance.
C10_Witness ==
    \E p, q \in Procs :
        /\ p # q
        /\ procs[p].op = "progress" /\ procs[p].pc = "committed"
        /\ procs[q].op = "progress" /\ procs[q].pc = "locked"
        /\ procs[q].snap.id = procs[p].snap.id
        /\ procs[q].snap.version = procs[p].snap.version + 1

\* ----------------------------------------------------------------- C11
\* Handler q runs a submission while handler p, which had the same
\* idempotency_key accepted for the same session, has not returned yet.
ConcurrentSameKey(p, q) ==
    /\ p # q
    /\ procs[p].op = "progress"
    /\ procs[p].pc = "committed"
    /\ procs[p].key # NoKey
    /\ ProgressStep(q)
    /\ procs[q].key = procs[p].key
    /\ procs[q].snap.id = procs[p].snap.id
    /\ procs[q].step \in 1..manual_total_steps

\* No two submissions for one session are between the duplicate check and
\* the commit together.
CheckAndInsertExclusive ==
    \A p, q \in Procs :
        ( /\ p # q
          /\ procs[p].op = "progress" /\ procs[p].pc = "locked"
          /\ procs[q].op = "progress" /\ procs[q].pc = "locked" )
        => procs[p].snap.id # procs[q].snap.id

ProcessedEvents(id) ==
    {i \in DOMAIN progress_events :
        /\ progress_events[i].session_uuid = id
        /\ progress_events[i].processed}

\* C12: the ProgressEvent insert and the session mutation of a submission
\* commit together, and version counts the advances: for every session,
\* version = 1 + the number of its ProgressEvents with processed = true,
\* and a step changes a session's current_step exactly when it appends a
\* processed ProgressEvent for that session (to that event's step + 1).
C12_VersionCountsAdvances ==
    /\ [](\A r \in sessions :
            r.version = 1 + Cardinality(ProcessedEvents(r.id)))
    /\ [][\A r \in sessions : \A r2 \in sessions' :
            r.id = r2.id
            => ( (r2.current_step # r.current_step \/ r2.version # r.version)
                 <=> /\ Len(progress_events') = Len(progress_events) + 1
                     /\ LET e == progress_events'[Len(progress_events')]
                        IN /\ e.session_uuid = r.id
                           /\ e.processed
                           /\ r2.current_step = e.step_number + 1
                           /\ r2.version = r.version + 1 )]_vars

\* A session that advanced twice.
C12_Witness ==
    \E r \in sessions :
        /\ r.version = 3
        /\ Cardinality(ProcessedEvents(r.id)) = 2

\* ----------------------------------------------------------------- C13
\* Handler p is in its feedback call: the transaction is committed, the
\* response not yet built.
InFeedbackCall(p) == procs[p].pc \in {"committed", "send_failed"}

\* C13: the webhook outcome never affects the triggering operation. From
\* the commit of submit_progress, create_session or update_session_status
\* on, whether the immediate POST succeeds or fails and whether the
\* hand-off to the retry queue succeeds or fails, the operation's result
\* stays a success, nothing is raised, and no step of the feedback call
\* changes a session, a ProgressEvent or a message.
C13_WebhookOutcomeInvisible ==
    /\ [](\A p \in Procs : InFeedbackCall(p) => procs[p].result = "OK")
    /\ [][\A p \in Procs :
            (InFeedbackCall(p) /\ procs'[p] # procs[p])
            => /\ procs'[p].pc \in {"send_failed", "done"}
               /\ procs'[p].result = "OK"
               /\ procs'[p].op = procs[p].op
               /\ sessions' = sessions
               /\ progress_events' = progress_events
               /\ messages' = messages]_vars

\* A submission returned successfully, its advance kept, although the POST
\* failed and the hand-off to the queue failed too.
C13_Witness ==
    \E p \in Procs, r \in sessions :
        /\ WEBHOOK_ENABLED
        /\ procs[p].op = "progress"
        /\ procs[p].pc = "done"
        /\ procs[p].result = "OK"
        /\ ~procs[p].feedback_sent
        /\ r.version = 2
        /\ webhook_queue = <<>>

\* ----------------------------------------------------------------- C14
\* This step is handler p returning from an accepted submit_progress.
ProgressReturns(p) ==
    /\ procs[p].op = "progress"
    /\ InFeedbackCall(p)
    /\ procs'[p].pc = "done"

\* C14 as stated: feedback_sent is false only when queuing itself failed.
C14_FalseOnlyWhenQueuingFailed ==
    [][\A p \in Procs :
         (ProgressReturns(p) /\ ~procs'[p].feedback_sent)
         => procs[p].pc = "send_failed"]_vars

\* C14 amended: the feedback_sent flag returned by an accepted
\* submit_progress is true when the event was delivered or queued, and
\* false when queuing failed or when webhooks are disabled (nothing is
\* sent or queued then).
C14_FeedbackSentFlag ==
    [][\A p \in Procs :
         ProgressReturns(p)
         => IF procs[p].pc = "committed"
            THEN /\ procs'[p].feedback_sent = WEBHOOK_ENABLED
                 /\ webhook_queue' = webhook_queue
            ELSE /\ WEBHOOK_ENABLED
                 /\ procs'[p].feedback_sent =
                       (Len(webhook_queue') = Len(webhook_queue) + 1)
                 /\ ~procs'[p].feedback_sent => webhook_queue' = webhook_queue]_vars

\* A submission returned feedback_sent = true for an event that was queued,
\* not delivered.
C14_Witness ==
    \E p \in Procs :
        /\ procs[p].op = "progress"
        /\ procs[p].pc = "done"
        /\ procs[p].feedback_sent
        /\ Len(webhook_queue) = 1
        /\ webhook_queue[1].event_type = "progress_update"

\* ----------------------------------------------------------------- C15
\* C15: an event whose immediate delivery attempt failed is handed to the
\* retry queue as exactly one new row, pending, carrying the event's
\* payload, event_type and session_id, unless the store fails the insert
\* (then nothing is added and the feedback call returns false); an event
\* whose immediate attempt succeeded adds no row; nothing else adds rows.
C15_FailedDeliveryQueuedOnce ==
    [][/\ \A p \in Procs :
            /\ (procs[p].pc = "send_failed" /\ procs'[p] # procs[p])
               => /\ procs'[p].pc = "done"
                  /\ IF procs'[p].feedback_sent
                     THEN /\ Len(webhook_queue') = Len(webhook_queue) + 1
                          /\ SubSeq(webhook_queue', 1, Len(webhook_queue))
                                = webhook_queue
                          /\ LET item == webhook_queue'[Len(webhook_queue')]
                             IN /\ item.status = "pending"
                                /\ JsonLoads(item.payload) = Payload(p)
                                /\ item.event_type = EventType(procs[p].op)
                                /\ item.event_type \in EventTypes
                                /\ item.session_id = procs[p].session_id
                     ELSE webhook_queue' = webhook_queue
            /\ (procs[p].pc = "committed" /\ procs'[p] # procs[p])
               => webhook_queue' = webhook_queue
       /\ webhook_queue' # webhook_queue
          => \E p \in Procs : procs[p].pc = "send_failed" /\ procs'[p].pc = "done"
      ]_vars

\* A session_ended event and a session_created event are in the queue, and
\* a third event was delivered at once.
C15_Witness ==
    /\ Len(webhook_queue) = 2
    /\ \E i \in DOMAIN webhook_queue :
          /\ webhook_queue[i].event_type = "session_ended"
          /\ webhook_queue[i].status = "pending"
    /\ \E i \in DOMAIN webhook_queue :
          webhook_queue[i].event_type = "session_created"
    /\ ops = 3
    /\ \A p \in Procs : procs[p].pc = "done" /\ procs[p].feedback_sent

\* ----------------------------------------------------------------- C20
\* C20: every step that takes a session to completed or abandoned is the
\* commit of a handler that goes on to hand a session_ended event to the
\* webhook dispatcher.
C20_EveryEndingSendsSessionEnded ==
    [][\A r \in sessions : \A r2 \in sessions' :
         ( /\ r.id = r2.id
           /\ r.status = "active"
           /\ r2.status \in {"completed", "abandoned"} )
         => \E p \in Procs :
               /\ procs'[p].pc = "committed"
               /\ procs'[p].snap.id = r.id
               /\ EventType(procs'[p].op) = "session_ended"]_vars

\* ----------------------------------------------------------------- C16
\* Row i of the queue is rewritten by this step.
RowRetried(i) ==
    /\ i \in DOMAIN webhook_queue
    /\ i \in DOMAIN webhook_queue'
    /\ webhook_queue'[i] # webhook_queue[i]

C17_AtMostMaxAttemptsDeliveries ==
    \A i \in DOMAIN webhook_queue :
        /\ webhook_queue[i].posts <= MAX_ATTEMPTS
        /\ webhook_queue[i].status = "failed"
           => webhook_queue[i].attempts = webhook_queue[i].posts

\* ----------------------------------------------------------------- C19
\* C19: success and failed are terminal. A row in either status is never in
\* a batch the worker loaded, no step changes any of its fields, and rows
\* are never removed from the queue, whatever happens to the session they
\* name.
C19_TerminalItems ==
    /\ [](\A i \in pump.items :
             /\ i \in DOMAIN webhook_queue
             /\ webhook_queue[i].status = "pending")
    /\ [][/\ Len(webhook_queue') >= Len(webhook_queue)
          /\ \A i \in DOMAIN webhook_queue :
                /\ webhook_queue'[i].payload = webhook_queue[i].payload
                /\ webhook_queue'[i].event_type = webhook_queue[i].event_type
                /\ webhook_queue'[i].session_id = webhook_queue[i].session_id
                /\ webhook_queue[i].status \in {"success", "failed"}
                   => /\ webhook_queue'[i] = webhook_queue[i]
                      /\ i \notin pump'.items]_vars

\* A delivered row and a failed row, past their retry times, outlive the
\* session they name.
C19_Witness ==
    /\ sessions = {}
    /\ \E i, j \in DOMAIN webhook_queue :
          /\ webhook_queue[i].status = "success"
          /\ webhook_queue[i].session_id \in SessionIds
          /\ webhook_queue[i].next_retry_at <= now
          /\ webhook_queue[j].status = "failed"
          /\ webhook_queue[j].next_retry_at <= now
    /\ \E p \in Procs : procs[p].op = "delete" /\ procs[p].result = "OK"

\* ----------------------------------------------------------------- C21
ProgressRejections ==
    {"SessionNotFound", "SessionEnded", "InvalidStep", "DuplicateProgressUpdate"}

\* This step is handler p's submit_progress being rejected: at the lookup
\* of the session, or under the row lock.
ProgressRejectedStep(p) ==
    /\ procs'[p].op = "progress"
    /\ procs'[p].pc = "done"
    /\ procs'[p].result \in ProgressRejections
    /\ \/ ProgressStep(p)
       \/ Free(p) /\ ops' = ops + 1 /\ \A q \in Procs \ {p} : procs'[q] = procs[q]

\* This step is handler p's submit_progress being accepted.
ProgressAcceptedStep(p) == ProgressStep(p) /\ procs'[p].result = "OK"

\* Handler p is inside send_progress_update.
ProgressEventPending(p) == procs[p].op = "progress" /\ InFeedbackCall(p)

ReaperStep == procs' = procs /\ sessions' # sessions

\* The session is active and its last activity is older than the timeout.
TimedOut(r) ==
    /\ r.status = "active"
    /\ r.last_activity_at + session_timeout_minutes * 60 < now

\* This step is handler p committing an accepted submit_progress or
\* add_message.
ActivityCommit(p) ==
    \/ ProgressStep(p) /\ procs'[p].result = "OK"
    \/ /\ procs[p].op = "message"
       /\ procs[p].pc = "read"
       /\ procs'[p].result = "OK"

\* C22: a run of the reaper sets status = abandoned and ended_at = now on
\* exactly the sessions that are active with last_activity_at older than
\* the 30 minute timeout at that moment; every other session and every
\* other column (current_step, version, last_activity_at) is unchanged, no
\* handler enters a feedback call and no queue row is added. Every
\* accepted submit_progress and add_message stamps last_activity_at with
\* the time of its commit, and the reaper does not touch a row a
\* submit_progress holds locked, so a session with accepted activity
\* within the timeout is not abandoned by the reaper.
C22_ReaperAbandonsExactlyStale ==
    [][/\ ReaperStep
          => /\ sessions' = {IF TimedOut(r)
                             THEN [r EXCEPT !.status = "abandoned",
                                            !.ended_at = now]
                             ELSE r : r \in sessions}
             /\ \A r \in sessions : TimedOut(r) => ~RowLocked(r.id)
             /\ progress_events' = progress_events
             /\ messages' = messages
             /\ webhook_queue' = webhook_queue
       /\ \A p \in Procs :
             ActivityCommit(p) => TargetRowAfter(p).last_activity_at = now]_vars

\* The reaper has abandoned the session that timed out and left the one
\* created later active, while an add_message on the timed-out session was
\* between its read and its commit.
C22_Witness ==
    \E r1, r2 \in sessions, p \in Procs :
        /\ r1.status = "abandoned"
        /\ r1.ended_at = now
        /\ r1.last_activity_at + session_timeout_minutes * 60 < now
        /\ r2.status = "active"
        /\ r2.last_activity_at + session_timeout_minutes * 60 = now
        /\ procs[p].op = "message"
        /\ procs[p].pc = "read"
        /\ procs[p].snap.id = r1.id

\* ----------------------------------------------------------------- C23
\* C23: within one sweep every row of the loaded batch is attempted (a
\* POST is made for it), whatever happened to the rows processed before
\* it: a failed delivery or a failed commit of one row does not keep the
\* others from their attempt.
C23_EveryBatchItemAttempted ==
    [][\A i \in DOMAIN webhook_queue :
         (pump.pc # "sleep" /\ i \in pump.items /\ i \notin pump'.items)
         => webhook_queue'[i].posts = webhook_queue[i].posts + 1]_vars

\* ----------------------------------------------------------------- C24
\* This step is handler p answering get_next_step.
NextStepCall(p) ==
    /\ ops' = ops + 1
    /\ procs'[p].op = "next_step"
    /\ procs'[p].request = ops'

\* C24: get_next_step changes no state and returns the step at
\* current_step, unless current_step > total_steps or the session is
\* completed or abandoned, in which case it reports completion
\* (is_completed true) and returns no step.
C24_NextStepResponse ==
    [][\A p \in Procs :
         NextStepCall(p)
         => /\ sessions' = sessions
            /\ progress_events' = progress_events
            /\ messages' = messages
            /\ webhook_queue' = webhook_queue
            /\ SessionExists(procs'[p].session_id)
               => LET r == SessionRow(procs'[p].session_id)
                      done == \/ r.current_step > manual_total_steps
                              \/ r.status # "active"
                  IN /\ procs'[p].result = "OK"
                     /\ procs'[p].is_completed = done
                     /\ procs'[p].step = IF done THEN 0 ELSE r.current_step]_vars

\* ----------------------------------------------------------------- C25
SessionIdUnique ==
    \A r1, r2 \in sessions : r1.session_id = r2.session_id => r1 = r2

\* This step is handler p starting create_session (its two lookups).
CreateCall(p) ==
    /\ ops' = ops + 1
    /\ procs'[p].op = "create"
    /\ procs'[p].request = ops'

\* This step is handler p's INSERT of the session, at commit.
CreateInsert(p) ==
    /\ procs[p].op = "create"
    /\ procs[p].pc = "checked"
    /\ procs'[p].pc # "checked"

\* C25: create_session with a session_id that exists fails with
\* SessionAlreadyExists, and with an unknown manual_id with ManualNotFound;
\* a create_session that fails (also one refused by the database at its
\* INSERT) creates no session and leaves the existing ones unchanged; one
\* that succeeds adds exactly one session, active, at current_step 1, with
\* ended_at null. session_id is unique in every reachable state.
C25_CreateSession ==
    /\ []SessionIdUnique
    /\ [][\A p \in Procs :
            /\ CreateCall(p)
               => /\ sessions' = sessions
                  /\ SessionExists(procs'[p].session_id)
                     => /\ procs'[p].pc = "done"
                        /\ procs'[p].result = "SessionAlreadyExists"
                  /\ ( /\ ~SessionExists(procs'[p].session_id)
                       /\ procs'[p].manual_id \notin manuals )
                     => /\ procs'[p].pc = "done"
                        /\ procs'[p].result = "ManualNotFound"
            /\ CreateInsert(p)
               => IF procs'[p].result = "OK"
                  THEN /\ ~SessionExists(procs[p].session_id)
                       /\ \E row \in sessions' :
                             /\ sessions' = sessions \cup {row}
                             /\ row \notin sessions
                             /\ row.session_id = procs[p].session_id
                             /\ row.status = "active"
                             /\ row.current_step = 1
                             /\ row.ended_at = Null
                  ELSE sessions' = sessions]_vars

\* Of three requests to create s1, one with an unknown manual failed with
\* ManualNotFound, one created the session, and the last failed with
\* SessionAlreadyExists.
C25_Witness ==
    \E p, q \in Procs, r \in sessions :
        /\ procs[p].op = "create"
        /\ procs[p].result = "SessionAlreadyExists"
        /\ procs[q].op = "create"
        /\ procs[q].result = "ManualNotFound"
        /\ r.session_id = procs[p].session_id
        /\ r.status = "active"
        /\ r.current_step = 1
        /\ Cardinality(sessions) = 1

\* ----------------------------------------------------------------- C29
\* This step is handler p running delete_manual.
DeleteManualCall(p) ==
    /\ ops' = ops + 1
    /\ procs'[p].op = "delete_manual"
    /\ procs'[p].request = ops'

\* C29: delete_manual is refused while a session of any status references
\* the manual: the manual, its steps and the sessions are unchanged. It
\* deletes the manual (with its steps) only when no session references
\* it, so every session's manual exists in every reachable state.
C29_ManualDeleteRefused ==
    /\ [](sessions # {} => SeededManual \in manuals)
    /\ [][\A p \in Procs :
            DeleteManualCall(p)
            => \A mid \in {m \in ManualIds : m = procs'[p].manual_id} :
                  /\ sessions' = sessions
                  /\ (mid = SeededManual /\ sessions # {})
                     => /\ procs'[p].result # "OK"
                        /\ manuals' = manuals
                        /\ ManualSteps(mid)' = ManualSteps(mid)
                  /\ (mid \in manuals /\ sessions = {})
                     => /\ procs'[p].result = "OK"
                        /\ manuals' = manuals \ {mid}
                        /\ ManualSteps(mid)' = {}
                  /\ manuals' # manuals => sessions = {}]_vars

\* delete_manual was refused while the only session of the manual was
\* already completed.
C29_Witness ==
    \E p \in Procs, r \in sessions :
        /\ procs[p].op = "delete_manual"
        /\ procs[p].manual_id = SeededManual
        /\ procs[p].result = "IntegrityError"
        /\ r.status = "completed"
        /\ SeededManual \in manuals

\* ----------------------------------------------------------------- C27
\* This step is handler p's add_message being refused at its lookup.
MessageRefusedStep(p) ==
    /\ Free(p)
    /\ ops' = ops + 1
    /\ procs'[p].op = "message"
    /\ procs'[p].pc = "done"
    /\ \A q \in Procs \ {p} : procs'[q] = procs[q]

\* This step is handler p's add_message committing.
MessageCommitStep(p) ==
    /\ procs[p].op = "message"
    /\ procs[p].pc = "read"
    /\ procs'[p].result = "OK"

\* C27: an add_message that is refused stores no message and leaves
\* last_activity_at alone; one that is accepted stores exactly one message,
\* on a session that is active when the message is inserted, with
\* step_at_time equal to the current_step the handler read, and refreshes
\* last_activity_at.
C27_MessagesOnlyOnActiveSessions ==
    [][\A p \in Procs :
         /\ MessageRefusedStep(p)
            => messages' = messages /\ sessions' = sessions
         /\ MessageCommitStep(p)
            => /\ Len(messages') = Len(messages) + 1
               /\ SubSeq(messages', 1, Len(messages)) = messages
               /\ messages'[Len(messages')].session_uuid = procs[p].snap.id
               /\ messages'[Len(messages')].step_at_time
                     = procs[p].snap.current_step
               /\ TargetRow(p).status = "active"
               /\ TargetRowAfter(p).last_activity_at = now]_vars

\* ----------------------------------------------------------------- C26
\* The rows of a child table that belong to other sessions than id.
OfOtherSessions(table, id) ==
    SelectSeq(table, LAMBDA e : e.session_uuid # id)

\* C26: a submit_progress on one session leaves every other session row
\* and the ProgressEvents and messages of every other session unchanged,
\* whatever is in flight on them; and it is refused as a duplicate only
\* when its key is recorded for its own session: the same key recorded
\* for another session does not count.
C26_SessionsIndependent ==
    [][\A p \in Procs :
         ProgressStep(p)
         => LET id == procs[p].snap.id
            IN /\ \A r \in sessions : r.id # id => r \in sessions'
               /\ \A r \in sessions' : r.id # id => r \in sessions
               /\ OfOtherSessions(progress_events', id)
                     = OfOtherSessions(progress_events, id)
               /\ messages' = messages
               /\ procs'[p].result = "DuplicateProgressUpdate"
                  => \E i \in DOMAIN progress_events :
                        /\ progress_events[i].session_uuid = id
                        /\ progress_events[i].idempotency_key = procs[p].key]_vars

\* The same idempotency key was accepted on both sessions, the second
\* while an add_message on the other session was in flight.
C26_Witness ==
    \E i, j \in DOMAIN progress_events, p \in Procs :
        /\ progress_events[i].session_uuid # progress_events[j].session_uuid
        /\ progress_events[i].idempotency_key \in Keys
        /\ progress_events[i].idempotency_key = progress_events[j].idempotency_key
        /\ procs[p].op = "message"
        /\ procs[p].pc = "read"

\* ----------------------------------------------------------------- C28
\* This step is handler p's delete_session committing.
DeleteCommitStep(p) ==
    /\ procs[p].op = "delete"
    /\ procs[p].pc = "read"
    /\ procs'[p].pc = "done"

\* C28: delete_session removes the session row with its messages and
\* ProgressEvents and nothing else: the other sessions, their events and
\* messages, the manual and every row of the webhook queue (also the rows
\* that name the deleted session) are unchanged. Afterwards no session has
\* the session_id, and a request that finds no session reports
\* SessionNotFound; a request that goes on is on a session that exists.
C28_DeleteCascade ==
    [][\A p \in Procs :
         /\ DeleteCommitStep(p)
            => LET id == procs[p].snap.id
               IN /\ sessions' = {r \in sessions : r.id # id}
                  /\ ~\E r \in sessions' : r.session_id = procs[p].session_id
                  /\ progress_events' = OfOtherSessions(progress_events, id)
                  /\ messages' = OfOtherSessions(messages, id)
                  /\ webhook_queue' = webhook_queue
                  /\ manuals' = manuals
                  /\ manual_total_steps' = manual_total_steps
         /\ (ops' = ops + 1 /\ procs'[p] # procs[p])
            => /\ sessions = {} => procs'[p].result = "SessionNotFound"
               /\ procs'[p].pc # "done" => SessionExists(procs'[p].session_id)]_vars

\* s1 was deleted with its ProgressEvent; the queued webhook that names s1
\* and the message of s2 are still there.
C28_Witness ==
    \E p \in Procs, i \in DOMAIN webhook_queue :
        /\ procs[p].op = "delete"
        /\ procs[p].result = "OK"
        /\ ~SessionExists(webhook_queue[i].session_id)
        /\ webhook_queue[i].event_type = "progress_update"
        /\ progress_events = <<>>
        /\ Len(messages) = 1
        /\ RowExists(messages[1].session_uuid)

\* ----------------------------------------------------------------- C30
\* This step ends an iteration of duty d in which an error was raised.
IterationRaised(d) ==
    /\ loops[d].pc = "run"
    /\ loops'[d].pc # "run"
    /\ loops'[d].raised \in LoopErrors

\* The clock of the behaviour has not reached its last reading.
ClockRuns == now + ClockStep <= MaxTime * 60

\* C30: an error raised in an iteration of the reaper or of the retry sweep
\* does not end the loop: the loop goes to sleep for its interval as after
\* any iteration, the other duty's loop is untouched, a loop starts an
\* iteration only when its interval has passed, a loop ends only by being
\* cancelled, and after an iteration that raised the duty runs again (or
\* the service is shut down) as long as time passes.
C30_LoopsSurviveErrors ==
    /\ [][\A d \in Duties :
            /\ IterationRaised(d)
               => /\ loops'[d].pc = "sleep"
                  /\ loops'[d].wake = now + Interval(d)
                  /\ \A e \in Duties \ {d} : loops'[e] = loops[e]
            /\ (loops[d].pc = "sleep" /\ loops'[d].pc = "run")
               => now >= loops[d].wake]_vars
    /\ [](\A d \in Duties :
             loops[d].pc = "ended" => loops[d].raised = Cancelled)
    /\ \A d \in Duties :
          (loops[d].pc = "sleep" /\ loops[d].raised \in LoopErrors /\ ClockRuns)
             ~> (loops[d].pc \in {"run", "ended"})

\* Both duties are in an iteration at a later clock reading, one of them
\* after an iteration of its own that raised.
C30_Witness ==
    \E d \in Duties :
        /\ now > 0
        /\ loops[d].pc = "run"
        /\ loops[d].raised \in LoopErrors
        /\ \A e \in Duties \ {d} : loops[e].pc = "run" /\ loops[e].raised = NoError

\* ----------------------------------------------------------------- C31
\* This step is handler p's submit_progress looking the session up, the
\* request having passed the route's validation.
ProgressLookupStep(p) ==
    /\ ops' = ops + 1
    /\ procs'[p] # procs[p]
    /\ procs'[p].op = "progress"
    /\ procs'[p].result # "ValidationError"

\* The key is recorded in a ProgressEvent of the session row id.
KeyRecorded(id, key) ==
    \E i \in DOMAIN progress_events :
        /\ progress_events[i].session_uuid = id
        /\ progress_events[i].idempotency_key = key

\* C31: submit_progress reports the first failing check in the order
\* unknown session, session not active, step out of range, key already
\* recorded: the lookup ends with SessionNotFound exactly when no session
\* has the id, and on the session found the answer is SessionEnded when it
\* is not active, whatever the step and the key, else InvalidStep when the
\* step is out of range, whatever the key, else DuplicateProgressUpdate
\* when the key is recorded, else the call is accepted.
C31_CheckOrder ==
    [][\A p \in Procs :
         /\ ProgressLookupStep(p)
            => IF \A sid \in SessionIds : ~SessionExists(sid)
               THEN procs'[p].pc = "done" /\ procs'[p].result = "SessionNotFound"
               ELSE procs'[p].pc = "locked"
         /\ ProgressStep(p)
            => LET row == TargetRow(p)
                   step == procs[p].step
                   key == procs[p].key
               IN procs'[p].result =
                     IF row.status # "active" THEN "SessionEnded"
                     ELSE IF step < 1 \/ step > manual_total_steps
                     THEN "InvalidStep"
                     ELSE IF key # NoKey /\ KeyRecorded(row.id, key)
                     THEN "DuplicateProgressUpdate"
                     ELSE "OK"]_vars

\* One submission was answered SessionEnded, and another one is about to be
\* checked that fails all three checks at once: the session has ended, the
\* step is past the manual's last step and the key is recorded.
C31_Witness ==
    \E p, q \in Procs :
        /\ procs[q].op = "progress"
        /\ procs[q].result = "SessionEnded"
        /\ procs[p].op = "progress"
        /\ procs[p].pc = "locked"
        /\ RowById(procs[p].snap.id).status # "active"
        /\ procs[p].step > manual_total_steps
        /\ procs[p].key # NoKey
        /\ KeyRecorded(procs[p].snap.id, procs[p].key)

\* ----------------------------------------------------------------- C32
\* This step is handler p's update_progress building its response after
\* its commit.
RespondStep(p) ==
    /\ procs[p].op = "progress"
    /\ procs[p].pc = "committed"
    /\ procs'[p].pc = "done"
    /\ procs'[p].result = "OK"

\* C32: the response of an accepted submit_progress reports previous_step =
\* the session's current_step just before the submission was applied, and
\* current_step and status = the values just after it was applied
\* (requested_step + 1 on an advance, completed past the last step), also
\* when another submission for the session commits concurrently.
C32_ResponseReportsOwnChange ==
    [][\A p \in Procs :
         RespondStep(p)
         => LET before == procs[p].snap
                advance == /\ procs[p].step_status = "DONE"
                           /\ procs[p].step >= before.current_step
                after == IF advance THEN procs[p].step + 1
                         ELSE before.current_step
            IN /\ procs'[p].response.previous_step = before.current_step
               /\ procs'[p].response.current_step = after
               /\ procs'[p].response.status =
                     IF advance /\ after > manual_total_steps
                     THEN "completed" ELSE before.status]_vars

\* ----------------------------------------------------------------- C33
\* Handler p's update_progress is in its feedback call: about to POST the
\* progress_update, or about to queue it after the POST failed.
InDispatch(p) ==
    /\ procs[p].op = "progress"
    /\ procs[p].pc \in {"committed", "send_failed"}

\* The ProgressEvent of handler p's submission is in the table.
OwnEventStored(p) ==
    \E i \in DOMAIN progress_events :
        /\ progress_events[i].session_uuid = procs[p].snap.id
        /\ progress_events[i].step_number = procs[p].step
        /\ progress_events[i].step_status = procs[p].step_status
        /\ progress_events[i].previous_step = procs[p].snap.current_step
        /\ progress_events[i].idempotency_key = procs[p].key

\* C33: the progress_update of a submission is dispatched only after the
\* submission has committed and released the row lock: a handler reaches
\* its feedback call only by the step that commits, through all of the
\* feedback call its ProgressEvent and its advance are in the tables, and
\* while it is there, with the receiver slow or failing, a submission of
\* another handler for the same session gets the row lock.
C33_DispatchAfterCommit ==
    /\ [][\A p \in Procs :
            (~InDispatch(p) /\ InDispatch(p)')
            => /\ procs[p].pc = "locked"
               /\ Len(progress_events') = Len(progress_events) + 1]_vars
    /\ [](\A p \in Procs :
            InDispatch(p)
            => /\ OwnEventStored(p)
               /\ ( /\ procs[p].step_status = "DONE"
                    /\ procs[p].step >= procs[p].snap.current_step )
                  => RowById(procs[p].snap.id).current_step > procs[p].step
               /\ \A q \in Procs \ {p} :
                    (Free(q) /\ ops < MaxOps)
                    => ENABLED (/\ SubmitProgress(q, procs[p].session_id, 1,
                                                   "DONE", NoKey)
                                /\ procs'[q].pc = "locked"))

\* One submission's POST has failed and it has yet to queue the event,
\* while the other handler's submission holds the lock of the same session.
C33_Witness ==
    \E p, q \in Procs :
        /\ procs[p].op = "progress"
        /\ procs[p].pc = "send_failed"
        /\ procs[q].op = "progress"
        /\ procs[q].pc = "locked"
        /\ procs[q].snap.id = procs[p].snap.id

\* ----------------------------------------------------------------- C34
\* This step makes a POST for row i of the queue.
SweepPost(i) ==
    /\ i \in DOMAIN webhook_queue'
    /\ webhook_queue'[i].posts = webhook_queue[i].posts + 1

\* The earliest time the row can be attempted again: not before its
\* next_retry_at and not before the worker's next sweep.
EarliestNextAttempt(item, t) ==
    IF item.next_retry_at > t + RETRY_INTERVAL_SECONDS
    THEN item.next_retry_at ELSE t + RETRY_INTERVAL_SECONDS

\* C34: a sweep loads at most 10 rows and attempts only rows that are
\* pending and whose next_retry_at has passed, and consecutive attempts of
\* a row are separated by at least its backoff delay: a row that is still
\* pending after its attempt cannot be attempted again earlier than
\* BASE_DELAY_SECONDS * 4 ^ (attempts before it) seconds later.
C34_AttemptsSpacedByBackoff ==
    /\ [](Cardinality(pump.items) <= BatchLimit)
    /\ [][\A i \in DOMAIN webhook_queue :
            SweepPost(i)
            => /\ webhook_queue[i].status = "pending"
               /\ webhook_queue[i].next_retry_at <= now
               /\ webhook_queue'[i].status = "pending"
                  => EarliestNextAttempt(webhook_queue'[i], now)
                        >= now + BASE_DELAY_SECONDS
                                   * 4 ^ webhook_queue[i].attempts]_vars

\* ----------------------------------------------------------------- C35
\* C35: in every state a session has an ended_at iff its status is
\* completed or abandoned, and the step that ends an active session, by
\* whichever path and in whatever interleaving, sets ended_at to the time
\* of that step.
C35_EndedAtIffEnded ==
    /\ [](\A r \in sessions :
            r.ended_at # Null <=> r.status \in {"completed", "abandoned"})
    /\ [][\A r \in sessions, r2 \in sessions' :
            (r2.id = r.id /\ r.status = "active" /\ r2.status # "active")
            => r2.ended_at = now]_vars

\* A session that a submission completed and a status update then set to
\* abandoned.
C35_Witness ==
    \E r \in sessions :
        /\ r.status = "abandoned"
        /\ r.current_step > manual_total_steps
        /\ r.ended_at # Null

\* ----------------------------------------------------------------- C36
\* C36: in every state every session has 1 <= current_step <=
\* total_steps + 1, and a session that is active has current_step <=
\* total_steps.
C36_CurrentStepInRange ==
    \A r \in sessions :
        /\ 1 <= r.current_step
        /\ r.current_step <= manual_total_steps + 1
        /\ r.status = "active" => r.current_step <= manual_total_steps

\* A session that advanced step by step past the last step of its manual.
C36_Witness ==
    \E r \in sessions :
        /\ r.current_step = manual_total_steps + 1
        /\ r.status = "completed"
        /\ r.version > 2

\* ----------------------------------------------------------------- C37
\* C37: every row of the webhook queue has 0 <= attempts <= 3; a pending
\* row has attempts < 3, a failed row has attempts = 3 and a last_error, a
\* delivered row has attempts >= 1; and no step lowers a row's attempts.
C37_QueueItemCounters ==
    /\ [](\A i \in DOMAIN webhook_queue :
            LET item == webhook_queue[i]
            IN /\ item.attempts \in 0..3
               /\ item.status = "pending" => item.attempts < 3
               /\ item.status = "failed"
                  => item.attempts = 3 /\ item.last_error # NoError
               /\ item.status = "success" => item.attempts >= 1)
    /\ [][\A i \in DOMAIN webhook_queue :
            /\ i \in DOMAIN webhook_queue'
            /\ webhook_queue'[i].attempts >= webhook_queue[i].attempts]_vars

\* One row was given up after its third attempt and another was delivered
\* by a retry.
C37_Witness ==
    \E i, j \in DOMAIN webhook_queue :
        /\ webhook_queue[i].status = "failed"
        /\ webhook_queue[j].status = "success"

\* ----------------------------------------------------------------- C38
\* C38: for every session the ProgressEvents with processed = true have
\* strictly increasing step_number in commit order, so no step number is
\* recorded as processed twice, and each of them has previous_step <=
\* step_number.
C38_ProcessedStepsIncrease ==
    /\ \A i, j \in DOMAIN progress_events :
          ( /\ i < j
            /\ progress_events[i].session_uuid = progress_events[j].session_uuid
            /\ progress_events[i].processed
            /\ progress_events[j].processed )
          => progress_events[i].step_number < progress_events[j].step_number
    /\ \A i \in DOMAIN progress_events :
          progress_events[i].processed
          => progress_events[i].previous_step <= progress_events[i].step_number

\* A session with two processed events and, committed between them, an
\* event that was recorded only.
C38_Witness ==
    \E i, j, k \in DOMAIN progress_events :
        /\ i < k /\ k < j
        /\ progress_events[i].session_uuid = progress_events[j].session_uuid
        /\ progress_events[i].session_uuid = progress_events[k].session_uuid
        /\ progress_events[i].processed
        /\ ~progress_events[k].processed
        /\ progress_events[j].processed

\* ----------------------------------------------------------------- C39
\* C39: current_step and version of a session change only by the commit of
\* an advancing submit_progress on that session (DONE for a step at or
\* ahead of the session's position), which sets current_step to
\* requested_step + 1 and adds 1 to version; no step of a status update,
\* add_message, the reaper or any other operation changes them, whatever
\* it read before a concurrent advance committed.
C39_OnlyAdvanceMovesStep ==
    [][\A r \in sessions, r2 \in sessions' :
         ( /\ r2.id = r.id
           /\ r2.current_step # r.current_step \/ r2.version # r.version )
         => \E p \in Procs :
               /\ ProgressStep(p)
               /\ procs[p].snap.id = r.id
               /\ procs'[p].result = "OK"
               /\ procs[p].step_status = "DONE"
               /\ procs[p].step >= r.current_step
               /\ r2.current_step = procs[p].step + 1
               /\ r2.version = r.version + 1]_vars

\* A status update has committed abandoned on a session that had advanced,
\* and the row still has the advance.
C39_Witness ==
    \E p \in Procs :
        /\ procs[p].op = "update"
        /\ procs[p].pc = "committed"
        /\ RowExists(procs[p].snap.id)
        /\ RowById(procs[p].snap.id).status = "abandoned"
        /\ RowById(procs[p].snap.id).current_step > 1
        /\ RowById(procs[p].snap.id).version > 1

\* ----------------------------------------------------------------- C40
\* C40: a keyed submission that is refused with InvalidStep or SessionEnded
\* inserts no ProgressEvent and so does not use up its key: a submission
\* is answered DuplicateProgressUpdate only when its key is in a
\* ProgressEvent of the session, ProgressEvents are inserted by accepted
\* submissions only, and a submission with a valid step on an active
\* session whose key is in no ProgressEvent of the session is accepted.
C40_RejectionKeepsKeyFree ==
    [][/\ \A p \in Procs :
            ProgressStep(p)
            => LET row == TargetRow(p)
                   key == procs[p].key
               IN /\ procs'[p].result \in {"InvalidStep", "SessionEnded"}
                     => progress_events' = progress_events
                  /\ procs'[p].result = "DuplicateProgressUpdate"
                     => KeyRecorded(row.id, key)
                  /\ ( /\ row.status = "active"
                       /\ procs[p].step \in 1..manual_total_steps
                       /\ ~KeyRecorded(row.id, key) )
                     => procs'[p].result = "OK"
       /\ progress_events' # progress_events
          => \E p \in Procs :
                /\ ProgressStep(p)
                /\ procs'[p].result = "OK"
                /\ Len(progress_events') = Len(progress_events) + 1]_vars

\* A keyed submission was refused for its step, no ProgressEvent has the
\* key, and the other handler's submission with the same key and a valid
\* step is at its checks.
C40_Witness ==
    \E p, q \in Procs :
        /\ procs[q].op = "progress"
        /\ procs[q].result = "InvalidStep"
        /\ procs[p].op = "progress"
        /\ procs[p].pc = "locked"
        /\ procs[p].key \in Keys
        /\ procs[p].step \in 1..manual_total_steps
        /\ RowById(procs[p].snap.id).status = "active"
        /\ progress_events = <<>>

====
